---- MODULE Spec2Model ----
(***************************************************************************)
(* A model of the route-search and ranking engine of MND-backend:          *)
(*   Graph                (core/graph.ts,   src/unnamed/part_001:494-715)  *)
(*   DistanceMatrixClient (src/src/infra/distanceMatrixClient.ts)          *)
(*   RoutePlanner         (core/planner.ts, src/unnamed/part_001:15-475)   *)
(* Times of day ("HH:MM") are pairs <<hours, minutes>>; the wall clock is  *)
(* an integer number of ticks, TicksPerDay of them to a calendar day.      *)
(***************************************************************************)
EXTENDS Integers, Sequences, FiniteSets, TLC

VARIABLES
  nodes,          \* Graph.nodes: Map<id, Node> in insertion order
  edges,          \* Graph.edges: Edge[]
  routes,         \* Graph.routes: Map<route_id, Route> in insertion order
  adjacencyList,  \* Graph.adjacencyList: nodeId -> EdgeInfo[]
  lastQuery,      \* the last graph query made and what it returned
  apiKey,         \* DistanceMatrixClient.apiKey, as "is it set"
  cache,          \* DistanceMatrixClient.cache: Map<cacheKey, CacheEntry>
  usageStats,     \* DistanceMatrixClient.usageStats
  now,            \* the wall clock (Date.now()), in ticks
  inflight,       \* the getLocalSegment calls suspended at their axios.get
  calls,          \* number of getLocalSegment calls made so far
  requests,       \* number of external requests issued so far
  lastStep,       \* what the last step of the client was
  loaded,         \* the datasets loadData has read so far, in order
  plan,           \* the planRoute call under way: its position and locals
  plans,          \* number of planRoute calls made so far
  history         \* what earlier calls began with and returned, where calls are compared

gvars == <<nodes, edges, routes, adjacencyList>>
dvars == <<apiKey, cache, usageStats, now, inflight, calls, requests, lastStep>>

----------------------------------------------------------------------------
(* Generic helpers *)

Range(s) == {s[i] : i \in 1..Len(s)}

\* Array.prototype.indexOf, 0-based, -1 when absent
IndexOf(s, x) ==
  IF \E i \in 1..Len(s) : s[i] = x
  THEN (CHOOSE i \in 1..Len(s) : s[i] = x /\ \A j \in 1..(i-1) : s[j] # x) - 1
  ELSE -1

\* The JavaScript value Infinity, above every finite time of the model
Infinity == 1000000

\* The JavaScript value null
NULL == "null"

----------------------------------------------------------------------------
(* Time of day: parseTime / timeToMinutes / minutesToTime / addMinutes *)

parseTime(timeStr) == [hours |-> timeStr[1], minutes |-> timeStr[2]]

\* the hours counted as a hundred minutes each
timeToMinutes_decimal(time) == time.hours * 100 + time.minutes

timeToMinutes(time) == time.hours * 60 + time.minutes

minutesToTime(minutes) == <<minutes \div 60, minutes % 60>>

addMinutes(timeStr, minutesToAdd) ==
  minutesToTime((timeToMinutes(parseTime(timeStr)) + minutesToAdd) % 1440)

----------------------------------------------------------------------------
(* Graph *)

\* Map.prototype.set on an insertion-ordered map kept as a sequence of
\* records: an existing key keeps its place and takes the new value.
MapSet(m, key, rec) ==
  IF \E i \in 1..Len(m) : m[i][key] = rec[key]
  THEN [i \in 1..Len(m) |-> IF m[i][key] = rec[key] THEN rec ELSE m[i]]
  ELSE Append(m, rec)

RECURSIVE MapSetAll(_, _, _)
MapSetAll(m, key, recs) ==
  IF recs = <<>> THEN m
  ELSE MapSetAll(MapSet(m, key, Head(recs)), key, Tail(recs))

NodeIds(ns) == {ns[i].id : i \in 1..Len(ns)}

\* the reverse descriptor pointing the way of the record
EdgeInfoOf_forward(edge, target) ==
  [to |-> edge.to, mode |-> edge.mode, route_ids |-> edge.route_ids,
   time_min |-> edge.time_min, cost |-> edge.cost]

EdgeInfoOf(edge, target) ==
  [to |-> target, mode |-> edge.mode, route_ids |-> edge.route_ids,
   time_min |-> edge.time_min, cost |-> edge.cost]

RECURSIVE AddEdges(_, _)
AddEdges(adj, es) ==
  IF es = <<>> THEN adj
  ELSE LET edge == Head(es)
           a1 == [adj EXCEPT ![edge.from] = Append(@, EdgeInfoOf(edge, edge.to))]
           a2 == IF ~edge.one_way
                 THEN [a1 EXCEPT ![edge.to] = Append(@, EdgeInfoOf(edge, edge.from))]
                 ELSE a1
       IN AddEdges(a2, Tail(es))

buildAdjacencyList(ns, es) == AddEdges([id \in NodeIds(ns) |-> <<>>], es)

hasNode(nodeId) == nodeId \in NodeIds(nodes)

getNode(nodeId) ==
  IF hasNode(nodeId)
  THEN nodes[CHOOSE i \in 1..Len(nodes) : nodes[i].id = nodeId]
  ELSE NULL

getAllNodes == nodes

getRoute(routeId) ==
  IF \E i \in 1..Len(routes) : routes[i].route_id = routeId
  THEN routes[CHOOSE i \in 1..Len(routes) : routes[i].route_id = routeId]
  ELSE NULL

getAllRoutes == routes

getNeighbors(nodeId) ==
  IF nodeId \in DOMAIN adjacencyList THEN adjacencyList[nodeId] ELSE <<>>

\* a not-found result with a time of 0
NotFound_zero ==
  [found |-> FALSE, path |-> <<>>, totalTime |-> 0, totalCost |-> 0,
   edges |-> <<>>]

\* lines 606 and 677
NotFound ==
  [found |-> FALSE, path |-> <<>>, totalTime |-> Infinity, totalCost |-> 0,
   edges |-> <<>>]

\* the same-node result with an empty path
SameNode_empty(from) ==
  [found |-> TRUE, path |-> <<>>, totalTime |-> 0, totalCost |-> 0,
   edges |-> <<>>]

\* line 610
SameNode(from) ==
  [found |-> TRUE, path |-> <<from>>, totalTime |-> 0, totalCost |-> 0,
   edges |-> <<>>]

\* the scan taking the first unvisited node that has a distance
RECURSIVE MinUnvisited_first(_, _, _, _, _)
MinUnvisited_first(order, unvisited, dist, current, minDist) ==
  IF order = <<>> THEN [current |-> current, minDist |-> minDist]
  ELSE LET n == Head(order) IN
       IF n \in unvisited /\ dist[n] < Infinity /\ current = NULL
       THEN MinUnvisited_first(Tail(order), unvisited, dist, n, dist[n])
       ELSE MinUnvisited_first(Tail(order), unvisited, dist, current, minDist)

\* the scan of lines 632-640: among the unvisited nodes, in insertion order,
\* the first one whose distance is strictly below every earlier candidate
RECURSIVE MinUnvisited(_, _, _, _, _)
MinUnvisited(order, unvisited, dist, current, minDist) ==
  IF order = <<>> THEN [current |-> current, minDist |-> minDist]
  ELSE LET n == Head(order) IN
       IF n \in unvisited /\ dist[n] < minDist
       THEN MinUnvisited(Tail(order), unvisited, dist, n, dist[n])
       ELSE MinUnvisited(Tail(order), unvisited, dist, current, minDist)

\* the relaxation of lines 655-671 over the neighbours of current
RECURSIVE Relax(_, _, _, _, _)
Relax(neighbors, current, allowedModes, unvisited, st) ==
  IF neighbors = <<>> THEN st
  ELSE LET edge == Head(neighbors)
           newDist == st.distances[current] + edge.time_min
           st1 ==
             IF edge.mode \notin allowedModes THEN st
             ELSE IF edge.to \notin unvisited THEN st
             ELSE IF newDist < st.distances[edge.to]
             THEN [distances |-> [st.distances EXCEPT ![edge.to] = newDist],
                   costs |-> [st.costs EXCEPT ![edge.to] = st.costs[current] + edge.cost],
                   previous |-> [st.previous EXCEPT ![edge.to] = current],
                   edgeMap |-> [st.edgeMap EXCEPT ![edge.to] = edge]]
             ELSE st
       IN Relax(Tail(neighbors), current, allowedModes, unvisited, st1)

\* the while loop of lines 630-672
RECURSIVE DijkstraLoop(_, _, _, _)
DijkstraLoop(order, to, allowedModes, s) ==
  IF s.unvisited = {} THEN s.st
  ELSE LET sel == MinUnvisited(order, s.unvisited, s.st.distances, NULL, Infinity) IN
       IF sel.current = NULL \/ sel.minDist = Infinity THEN s.st
       ELSE LET unv == s.unvisited \ {sel.current} IN
            IF sel.current = to THEN s.st
            ELSE DijkstraLoop(order, to, allowedModes,
                   [unvisited |-> unv,
                    st |-> Relax(getNeighbors(sel.current), sel.current,
                                 allowedModes, unv, s.st)])

\* the reconstruction stopping short of the node the search started from
RECURSIVE Reconstruct_open(_, _, _, _)
Reconstruct_open(st, current, path, es) ==
  IF st.previous[current] = NULL THEN [path |-> path, edges |-> es]
  ELSE Reconstruct_open(st, st.previous[current], <<current>> \o path,
                        <<st.edgeMap[current]>> \o es)

\* the path reconstruction of lines 680-690
RECURSIVE Reconstruct(_, _, _, _)
Reconstruct(st, current, path, es) ==
  IF current = NULL THEN [path |-> path, edges |-> es]
  ELSE Reconstruct(st, st.previous[current], <<current>> \o path,
                   IF st.previous[current] # NULL
                   THEN <<st.edgeMap[current]>> \o es ELSE es)

localShortestPath(from, to, allowedModes) ==
  IF ~hasNode(from) \/ ~hasNode(to) THEN NotFound
  ELSE IF from = to THEN SameNode(from)
  ELSE LET ids == NodeIds(nodes)
           order == [i \in 1..Len(nodes) |-> nodes[i].id]
           st0 == [distances |-> [n \in ids |-> IF n = from THEN 0 ELSE Infinity],
                   costs |-> [n \in ids |-> 0],
                   previous |-> [n \in ids |-> NULL],
                   edgeMap |-> [n \in ids |-> NULL]]
           st == DijkstraLoop(order, to, allowedModes, [unvisited |-> ids, st |-> st0])
           finalDist == st.distances[to]
       IN IF finalDist = Infinity THEN NotFound
          ELSE LET r == Reconstruct(st, to, <<>>, <<>>) IN
               [found |-> TRUE, path |-> r.path, totalTime |-> finalDist,
                totalCost |-> st.costs[to], edges |-> r.edges]

\* the default argument of localShortestPath
LocalModes == {"walk", "local"}

----------------------------------------------------------------------------
(* DistanceMatrixClient *)

MONTHLY_LIMIT == 700
DAILY_LIMIT == 50
CACHE_TTL_DAYS == 7

\* the daily quota as the README (line 428) and the health endpoint
\* (validation.ts line 149) give it
DOCUMENTED_DAILY_LIMIT == 25

\* Bounds of the clock: ticks to a day, days to a month
TicksPerDay == 2
DaysPerMonth == 4

\* The instants at which something is made to happen: the start, the next
\* day, the next month, and one tick before and exactly at the age of
\* CACHE_TTL_DAYS of what was stored at the start
Instants ==
  {0, TicksPerDay, DaysPerMonth * TicksPerDay,
   CACHE_TTL_DAYS * TicksPerDay - 1, CACHE_TTL_DAYS * TicksPerDay}

\* new Date().toISOString().slice(0, 10): the calendar date of a clock value,
\* as <<month, day of the month>>
ISODate(t) == <<(t \div TicksPerDay) \div DaysPerMonth, (t \div TicksPerDay) % DaysPerMonth>>

\* date.slice(0, 7): the YYYY-MM part
MonthOf(date) == date[1]

CacheKey(originNodeId, destNodeId, mode) ==
  originNodeId \o "|" \o destNodeId \o "|" \o mode

\* the age in ticks compared with the TTL in days
isCacheValid_units(entry, t) == (t - entry.timestamp) < CACHE_TTL_DAYS

\* the age compared with <= instead of <
isCacheValid_inclusive(entry, t) == (t - entry.timestamp) <= CACHE_TTL_DAYS * TicksPerDay

\* ageDays < CACHE_TTL_DAYS with ageDays = ageMs / (one day), a real division
isCacheValid(entry, t) == (t - entry.timestamp) < CACHE_TTL_DAYS * TicksPerDay

\* both counts zeroed on any change of date
checkAndResetCounters_both(stats, t) ==
  IF stats.lastReset # ISODate(t)
  THEN [stats EXCEPT !.dailyCount = 0, !.monthlyCount = 0, !.lastReset = ISODate(t)]
  ELSE stats

\* the rollover left out
checkAndResetCounters_never(stats, t) == stats

\* lines 234-253: the lazy rollover of the day and of the month
checkAndResetCounters(stats, t) ==
  LET today == ISODate(t) IN
  IF stats.lastReset # today
  THEN [stats EXCEPT
          !.dailyCount = 0,
          !.monthlyCount = IF MonthOf(stats.lastReset) # MonthOf(today) THEN 0 ELSE @,
          !.lastReset = today]
  ELSE stats

ErrNotConfigured == [ok |-> FALSE, errorMessage |-> "Distance Matrix API key not configured"]
ErrMonthly == [ok |-> FALSE, errorMessage |-> "Monthly API quota exceeded"]
ErrDaily == [ok |-> FALSE, errorMessage |-> "Daily API quota exceeded"]
ErrInvalidNodes == [ok |-> FALSE, errorMessage |-> "Invalid node IDs"]
ErrApiStatus == [ok |-> FALSE, errorMessage |-> "API status"]
ErrElementStatus == [ok |-> FALSE, errorMessage |-> "Element status"]
ErrNetwork == [ok |-> FALSE, errorMessage |-> "Network error"]
NoResult == [ok |-> FALSE, errorMessage |-> ""]

\* the key check left out
Configured_always == TRUE

\* line 43: is there an API key
Configured == apiKey

\* line 57: a cache entry for the key that is still valid
CacheHit(cacheKey) ==
  cacheKey \in DOMAIN cache /\ isCacheValid(cache[cacheKey], now)

\* lines 69 and 77: the quota checks
\* the monthly check off by one
MonthlyQuotaReached_strict(stats) == stats.monthlyCount > MONTHLY_LIMIT

MonthlyQuotaReached(stats) == stats.monthlyCount >= MONTHLY_LIMIT

\* the daily check off by one
DailyQuotaReached_strict(stats) == stats.dailyCount > DAILY_LIMIT

DailyQuotaReached(stats) == stats.dailyCount >= DAILY_LIMIT

\* getLocalSegment up to its axios.get (lines 42-109): the statistics it
\* leaves, and either the result it returns at once or the request it issues.
getLocalSegmentBegin(originNodeId, destNodeId, mode) ==
  IF ~Configured
  THEN [usageStats |-> usageStats, issued |-> FALSE, result |-> ErrNotConfigured]
  ELSE LET stats == checkAndResetCounters(usageStats, now)
           cacheKey == CacheKey(originNodeId, destNodeId, mode)
       IN IF CacheHit(cacheKey)
          THEN [usageStats |-> [stats EXCEPT !.cacheHits = @ + 1], issued |-> FALSE,
                result |-> [ok |-> TRUE,
                            distanceMeters |-> cache[cacheKey].distanceMeters,
                            durationSeconds |-> cache[cacheKey].durationSeconds,
                            fromCache |-> TRUE]]
          ELSE IF MonthlyQuotaReached(stats)
          THEN [usageStats |-> stats, issued |-> FALSE, result |-> ErrMonthly]
          ELSE IF DailyQuotaReached(stats)
          THEN [usageStats |-> stats, issued |-> FALSE, result |-> ErrDaily]
          ELSE IF ~hasNode(originNodeId) \/ ~hasNode(destNodeId)
          THEN [usageStats |-> stats, issued |-> FALSE, result |-> ErrInvalidNodes]
          ELSE [usageStats |-> [stats EXCEPT !.cacheMisses = @ + 1], issued |-> TRUE,
                result |-> NoResult]

\* What the external request can come to: a transport failure before the
\* provider is reached, an HTTP error answer of the provider (axios rejects
\* both), or an answer with a top-level status and an element status.
Outcomes == {"network_error", "http_error", "status_not_ok", "element_not_ok", "ok"}
ReachedProvider == {"http_error", "status_not_ok", "element_not_ok", "ok"}

\* a failed request taking the entry of its key out of the cache
getLocalSegmentEnd_purge(req, outcome, data) ==
  LET purged == [k \in DOMAIN cache \ {req.cacheKey} |-> cache[k]] IN
  IF outcome \in {"network_error", "http_error"}
  THEN [usageStats |-> usageStats, cache |-> purged, result |-> ErrNetwork]
  ELSE LET stats == [usageStats EXCEPT !.monthlyCount = @ + 1, !.dailyCount = @ + 1] IN
       IF outcome = "status_not_ok"
       THEN [usageStats |-> stats, cache |-> purged, result |-> ErrApiStatus]
       ELSE IF outcome = "element_not_ok"
       THEN [usageStats |-> stats, cache |-> purged, result |-> ErrElementStatus]
       ELSE [usageStats |-> stats,
             cache |-> (req.cacheKey :> [distanceMeters |-> data.distanceMeters,
                                         durationSeconds |-> data.durationSeconds,
                                         timestamp |-> now]) @@ cache,
             result |-> [ok |-> TRUE, distanceMeters |-> data.distanceMeters,
                         durationSeconds |-> data.durationSeconds,
                         fromCache |-> FALSE]]

\* getLocalSegment from the end of its axios.get (lines 100-165)
getLocalSegmentEnd(req, outcome, data) ==
  IF outcome \in {"network_error", "http_error"}
  THEN [usageStats |-> usageStats, cache |-> cache, result |-> ErrNetwork]
  ELSE LET stats == [usageStats EXCEPT !.monthlyCount = @ + 1, !.dailyCount = @ + 1] IN
       IF outcome = "status_not_ok"
       THEN [usageStats |-> stats, cache |-> cache, result |-> ErrApiStatus]
       ELSE IF outcome = "element_not_ok"
       THEN [usageStats |-> stats, cache |-> cache, result |-> ErrElementStatus]
       ELSE [usageStats |-> stats,
             cache |-> (req.cacheKey :> [distanceMeters |-> data.distanceMeters,
                                         durationSeconds |-> data.durationSeconds,
                                         timestamp |-> now]) @@ cache,
             result |-> [ok |-> TRUE, distanceMeters |-> data.distanceMeters,
                         durationSeconds |-> data.durationSeconds,
                         fromCache |-> FALSE]]

Busy(c) == \E r \in inflight : r.caller = c

----------------------------------------------------------------------------
(* RoutePlanner: the strategies.  A function that returns "an option or   *)
(* null" returns a sequence of at most one option.                         *)

\* Math.round(x / d) for x >= 0
RoundDiv(x, d) == (2 * x + d) \div (2 * d)

\* directBusRoute, lines 76-142: the first trip of the route that serves
\* both stops in order and has not left
RECURSIVE directBusRouteFrom(_, _, _, _, _)
directBusRouteFrom(route, trips, from, to, requestTime) ==
  IF trips = <<>> THEN <<>>
  ELSE LET trip == Head(trips)
           fromIndex == IndexOf(trip.stops, from)
           toIndex == IndexOf(trip.stops, to)
           hopsBefore == fromIndex
           tripStartMin == timeToMinutes(parseTime(trip.departure_time))
           timeToFrom == hopsBefore * 5
           departureMin == tripStartMin + timeToFrom
           requestMin == timeToMinutes(parseTime(requestTime))
           hops == toIndex - fromIndex
           travelTime == hops * 5
           leg == [mode |-> "bus", route_id |-> route.route_id, trip_id |-> trip.trip_id,
                   from |-> from, to |-> to,
                   departure |-> addMinutes(trip.departure_time, timeToFrom),
                   arrival |-> addMinutes(trip.departure_time, timeToFrom + travelTime),
                   durationMin |-> travelTime, cost |-> 0, source |-> "graph"]
       IN IF fromIndex = -1 \/ toIndex = -1 \/ fromIndex >= toIndex
          THEN directBusRouteFrom(route, Tail(trips), from, to, requestTime)
          ELSE IF departureMin < requestMin
          THEN directBusRouteFrom(route, Tail(trips), from, to, requestTime)
          ELSE << [label |-> route.name \o " Direct", category |-> "fastest",
                   type |-> "direct", transfers |-> 0,
                   totalTimeMin |-> travelTime + (departureMin - requestMin),
                   totalCost |-> 0, localTimeMin |-> 0, localDistanceMeters |-> 0,
                   usesDistanceMatrix |-> FALSE, legs |-> <<leg>>] >>

directBusRoute(route, from, to, requestTime) ==
  directBusRouteFrom(route, route.trips, from, to, requestTime)

\* busToLocalRoute, lines 156-163: the (trip, drop-off index) pairs its two
\* loops visit, in order
RECURSIVE DropOffsOfTrip(_, _, _, _)
DropOffsOfTrip(trip, fromIndex, i, to) ==
  IF i >= Len(trip.stops) THEN <<>>
  ELSE (IF trip.stops[i + 1] = to THEN <<>>
        ELSE << [trip |-> trip, fromIndex |-> fromIndex, i |-> i] >>)
       \o DropOffsOfTrip(trip, fromIndex, i + 1, to)

RECURSIVE DropOffs(_, _, _)
DropOffs(trips, from, to) ==
  IF trips = <<>> THEN <<>>
  ELSE LET fromIndex == IndexOf(Head(trips).stops, from) IN
       (IF fromIndex = -1 THEN <<>>
        ELSE DropOffsOfTrip(Head(trips), fromIndex, fromIndex + 1, to))
       \o DropOffs(Tail(trips), from, to)

\* the local segment of a drop-off when the graph has a local path
\* (lines 166-170) and when the Distance Matrix answered (lines 175-179)
LocalFromPath(localPath) ==
  [localTime |-> localPath.totalTime, localCost |-> localPath.totalCost,
   localDistance |-> 0, usedDM |-> FALSE]

LocalFromDM(dm) ==
  [localTime |-> RoundDiv(dm.durationSeconds, 60),
   localDistance |-> dm.distanceMeters,
   localCost |-> RoundDiv(dm.distanceMeters, 100) * 2,
   usedDM |-> TRUE]

\* busToLocalRoute, lines 185-239: the rest of one iteration, given the
\* local segment; hy = [bestOption, minTotalTime]
HybridItem(route, from, to, requestTime, item, loc, hy) ==
  LET trip == item.trip
      dropOffStop == trip.stops[item.i + 1]
      hopsBefore == item.fromIndex
      busHops == item.i - item.fromIndex
      timeToFrom == hopsBefore * 5
      busTravelTime == busHops * 5
      tripStartMin == timeToMinutes(parseTime(trip.departure_time))
      departureMin == tripStartMin + timeToFrom
      requestMin == timeToMinutes(parseTime(requestTime))
      waitTime == departureMin - requestMin
      totalTime == waitTime + busTravelTime + loc.localTime
      busLeg == [mode |-> "bus", route_id |-> route.route_id, trip_id |-> trip.trip_id,
                 from |-> from, to |-> dropOffStop,
                 departure |-> addMinutes(trip.departure_time, timeToFrom),
                 arrival |-> addMinutes(trip.departure_time, timeToFrom + busTravelTime),
                 durationMin |-> busTravelTime, cost |-> 0, source |-> "graph"]
      localLeg == [mode |-> "local", submode |-> "driving", from |-> dropOffStop,
                   to |-> to, durationMin |-> loc.localTime,
                   distanceMeters |-> loc.localDistance, cost |-> loc.localCost,
                   source |-> IF loc.usedDM THEN "distance_matrix" ELSE "graph"]
  IN IF departureMin < requestMin THEN hy
     ELSE IF totalTime < hy.minTotalTime
     THEN [minTotalTime |-> totalTime,
           bestOption |-> << [label |-> route.name \o " + Local", category |-> "fastest",
                              type |-> "direct", transfers |-> 0,
                              totalTimeMin |-> totalTime, totalCost |-> loc.localCost,
                              localTimeMin |-> loc.localTime,
                              localDistanceMeters |-> loc.localDistance,
                              usesDistanceMatrix |-> loc.usedDM,
                              legs |-> <<busLeg, localLeg>>] >>]
     ELSE hy

\* findTransferPoints, lines 282-290: the stops of route1, in first-seen
\* order, that route2 serves too
RECURSIVE StopsInOrder(_, _)
StopsInOrder(stopsLeft, seen) ==
  IF stopsLeft = <<>> THEN <<>>
  ELSE IF Head(stopsLeft) \in seen THEN StopsInOrder(Tail(stopsLeft), seen)
  ELSE <<Head(stopsLeft)>> \o StopsInOrder(Tail(stopsLeft), seen \cup {Head(stopsLeft)})

RECURSIVE AllStops(_)
AllStops(trips) ==
  IF trips = <<>> THEN <<>> ELSE Head(trips).stops \o AllStops(Tail(trips))

findTransferPoints(route1, route2) ==
  SelectSeq(StopsInOrder(AllStops(route1.trips), {}),
            LAMBDA stop : stop \in Range(AllStops(route2.trips)))

\* a wait of 16 minutes let through
createTransferRoute_late(route1, route2, from, to, transferNode, requestTime) ==
  LET leg1 == directBusRoute(route1, from, transferNode, requestTime) IN
  IF leg1 = <<>> THEN <<>>
  ELSE LET arrivalAtTransfer == leg1[1].legs[1].arrival
           leg2 == directBusRoute(route2, transferNode, to, arrivalAtTransfer)
       IN IF leg2 = <<>> THEN <<>>
          ELSE LET arrivalMin == timeToMinutes(parseTime(arrivalAtTransfer))
                   departureMin == timeToMinutes(parseTime(leg2[1].legs[1].departure))
                   waitTime == departureMin - arrivalMin
                   totalTime == leg1[1].totalTimeMin + waitTime + leg2[1].legs[1].durationMin
               IN IF waitTime < 0 \/ waitTime > 16 THEN <<>>
                  ELSE << [label |-> "Transfer at " \o getNode(transferNode).name,
                           category |-> "fastest", type |-> "transfer", transfers |-> 1,
                           totalTimeMin |-> totalTime, totalCost |-> 0,
                           localTimeMin |-> 0, localDistanceMeters |-> 0,
                           usesDistanceMatrix |-> FALSE,
                           legs |-> leg1[1].legs \o leg2[1].legs] >>

\* createTransferRoute, lines 295-338
createTransferRoute(route1, route2, from, to, transferNode, requestTime) ==
  LET leg1 == directBusRoute(route1, from, transferNode, requestTime) IN
  IF leg1 = <<>> THEN <<>>
  ELSE LET arrivalAtTransfer == leg1[1].legs[1].arrival
           leg2 == directBusRoute(route2, transferNode, to, arrivalAtTransfer)
       IN IF leg2 = <<>> THEN <<>>
          ELSE LET arrivalMin == timeToMinutes(parseTime(arrivalAtTransfer))
                   departureMin == timeToMinutes(parseTime(leg2[1].legs[1].departure))
                   waitTime == departureMin - arrivalMin
                   totalTime == leg1[1].totalTimeMin + waitTime + leg2[1].legs[1].durationMin
               IN IF waitTime < 0 \/ waitTime > 15 THEN <<>>
                  ELSE << [label |-> "Transfer at " \o getNode(transferNode).name,
                           category |-> "fastest", type |-> "transfer", transfers |-> 1,
                           totalTimeMin |-> totalTime, totalCost |-> 0,
                           localTimeMin |-> 0, localDistanceMeters |-> 0,
                           usesDistanceMatrix |-> FALSE,
                           legs |-> leg1[1].legs \o leg2[1].legs] >>

\* findTransferRoutes, lines 249-277
RECURSIVE TransfersAt(_, _, _, _, _, _)
TransfersAt(route1, route2, points, from, to, requestTime) ==
  IF points = <<>> THEN <<>>
  ELSE createTransferRoute(route1, route2, from, to, Head(points), requestTime)
       \o TransfersAt(route1, route2, Tail(points), from, to, requestTime)

RECURSIVE TransfersOfPairs(_, _, _, _)
TransfersOfPairs(pairs, from, to, requestTime) ==
  IF pairs = <<>> THEN <<>>
  ELSE LET route1 == Head(pairs)[1]
           route2 == Head(pairs)[2]
       IN (IF route1.route_id = route2.route_id THEN <<>>
           ELSE TransfersAt(route1, route2, findTransferPoints(route1, route2),
                            from, to, requestTime))
          \o TransfersOfPairs(Tail(pairs), from, to, requestTime)

findTransferRoutes(from, to, requestTime) ==
  LET allRoutes == getAllRoutes
      n == Len(allRoutes)
      pairs == [k \in 1..(n * n) |->
                  <<allRoutes[((k - 1) \div n) + 1], allRoutes[((k - 1) % n) + 1]>>]
  IN TransfersOfPairs(pairs, from, to, requestTime)

\* localOnlyRoute, lines 347-369: the option built from a graph path
LocalOptionFromPath(localPath) ==
  [label |-> "Local Transport Only", category |-> "least_local",
   type |-> "local_only", transfers |-> 0, totalTimeMin |-> localPath.totalTime,
   totalCost |-> localPath.totalCost, localTimeMin |-> localPath.totalTime,
   localDistanceMeters |-> 0, usesDistanceMatrix |-> FALSE,
   legs |-> [idx \in 1..Len(localPath.edges) |->
               [mode |-> localPath.edges[idx].mode, from |-> localPath.path[idx],
                to |-> localPath.path[idx + 1],
                durationMin |-> localPath.edges[idx].time_min,
                cost |-> localPath.edges[idx].cost, source |-> "graph"]]]

\* localOnlyRoute, lines 372-397: the option built from a Distance Matrix result
LocalOptionFromDM(from, to, dm) ==
  LET leg == [mode |-> "local", submode |-> "driving", from |-> from, to |-> to,
              durationMin |-> RoundDiv(dm.durationSeconds, 60),
              distanceMeters |-> dm.distanceMeters,
              cost |-> RoundDiv(dm.distanceMeters, 100) * 2,
              source |-> "distance_matrix"]
  IN [label |-> "Local Transport Only", category |-> "least_local",
      type |-> "local_only", transfers |-> 0, totalTimeMin |-> leg.durationMin,
      totalCost |-> leg.cost, localTimeMin |-> leg.durationMin,
      localDistanceMeters |-> leg.distanceMeters, usesDistanceMatrix |-> TRUE,
      legs |-> <<leg>>]

----------------------------------------------------------------------------
(* RoutePlanner: ranking *)

\* getOptionId, lines 457-459: the legs as "from-to-mode", joined by "|"
RECURSIVE JoinLegs(_)
JoinLegs(legs) ==
  IF legs = <<>> THEN ""
  ELSE LET leg == Head(legs)
           one == leg.from \o "-" \o leg.to \o "-" \o leg.mode
       IN IF Tail(legs) = <<>> THEN one ELSE one \o "|" \o JoinLegs(Tail(legs))

getOptionId(option) == JoinLegs(option.legs)

\* deduplicateOptions, lines 461-474
RECURSIVE DedupFrom(_, _)
DedupFrom(options, seen) ==
  IF options = <<>> THEN <<>>
  ELSE LET id == getOptionId(Head(options)) IN
       IF id \notin seen
       THEN <<Head(options)>> \o DedupFrom(Tail(options), seen \cup {id})
       ELSE DedupFrom(Tail(options), seen)

deduplicateOptions(options) == DedupFrom(options, {})

\* the scan left out: the first option whatever its field
MinIndex_head(unique, field, k, best) == best

\* the scan with <= instead of <: the last of the minimal options
RECURSIVE MinIndex_last(_, _, _, _)
MinIndex_last(unique, field, k, best) ==
  IF k > Len(unique) THEN best
  ELSE MinIndex_last(unique, field, k + 1,
                     IF unique[k][field] <= unique[best][field] THEN k ELSE best)

\* the scans of lines 412-417 and 420-425: the index of the first option
\* whose field is strictly below that of every earlier one
RECURSIVE MinIndex(_, _, _, _)
MinIndex(unique, field, k, best) ==
  IF k > Len(unique) THEN best
  ELSE MinIndex(unique, field, k + 1,
                IF unique[k][field] < unique[best][field] THEN k ELSE best)

\* the loop stopping one entry late
RECURSIVE AddOthers_late(_, _, _, _)
AddOthers_late(unique, k, result, addedIds) ==
  IF k > Len(unique) \/ Len(result) > 3 THEN result
  ELSE LET id == getOptionId(unique[k]) IN
       IF id \notin addedIds
       THEN AddOthers_late(unique, k + 1, Append(result, unique[k]), addedIds \cup {id})
       ELSE AddOthers_late(unique, k + 1, result, addedIds)

\* the loop of lines 445-452
RECURSIVE AddOthers(_, _, _, _)
AddOthers(unique, k, result, addedIds) ==
  IF k > Len(unique) \/ Len(result) >= 3 THEN result
  ELSE LET id == getOptionId(unique[k]) IN
       IF id \notin addedIds
       THEN AddOthers(unique, k + 1, Append(result, unique[k]), addedIds \cup {id})
       ELSE AddOthers(unique, k + 1, result, addedIds)

\* compareRoutes, lines 405-455.  The options are objects: relabelling
\* fastest and leastLocal changes them where they stand in unique as well.
compareRoutes(options) ==
  IF Len(options) = 0 THEN <<>>
  ELSE LET unique == deduplicateOptions(options)
           fi == MinIndex(unique, "totalTimeMin", 1, 1)
           li == MinIndex(unique, "localTimeMin", 1, 1)
           unique1 == [unique EXCEPT ![fi].category = "fastest",
                                     ![fi].label = "Fastest Route"]
           second == getOptionId(unique[li]) # getOptionId(unique[fi])
           unique2 == IF second
                      THEN [unique1 EXCEPT ![li].category = "least_local",
                                           ![li].label = "Least Local Transport"]
                      ELSE unique1
           result == IF second THEN <<unique2[fi], unique2[li]>> ELSE <<unique2[fi]>>
       IN AddOthers(unique2, 1, result, {getOptionId(unique[fi])})

----------------------------------------------------------------------------
(* The datasets the graph is loaded from (nodes.json, edges.json,          *)
(* routes.json), and the requests made.                                    *)

N(id) == [id |-> id, name |-> "Node " \o id]

E(from, to, mode, time_min, cost, one_way) ==
  [from |-> from, to |-> to, mode |-> mode, route_ids |-> <<>>,
   time_min |-> time_min, cost |-> cost, one_way |-> one_way]

T(trip_id, stops, departure_time) ==
  [trip_id |-> trip_id, direction |-> "to_campus", stops |-> stops,
   departure_time |-> departure_time]

\* one bus line A-B-C and nothing else
DataLine ==
  [nodes |-> <<N("A"), N("B"), N("C")>>,
   edges |-> <<>>,
   routes |-> << [route_id |-> "bus1", name |-> "Bus 1",
                  trips |-> <<T("bus1_0800", <<"A", "B", "C">>, <<8, 0>>)>>] >>]

\* the line A-B-C and local streets A-B-C that are faster than the bus
DataStreets ==
  [nodes |-> <<N("A"), N("B"), N("C")>>,
   edges |-> <<E("A", "B", "bus", 1, 0, FALSE), E("A", "B", "local", 3, 10, FALSE),
               E("B", "C", "walk", 4, 0, FALSE), E("A", "C", "local", 9, 30, TRUE)>>,
   routes |-> << [route_id |-> "bus1", name |-> "Bus 1",
                  trips |-> <<T("bus1_0800", <<"A", "B", "C">>, <<8, 0>>)>>] >>]

\* three lines over four nodes: two trips on bus1, a connection at B to
\* bus2, an express bus3 from A to C, local streets from B and D only
DataCity ==
  [nodes |-> <<N("A"), N("B"), N("C"), N("D")>>,
   edges |-> <<E("A", "B", "bus", 1, 0, FALSE), E("B", "D", "local", 4, 20, FALSE),
               E("D", "C", "walk", 3, 0, TRUE)>>,
   routes |-> << [route_id |-> "bus1", name |-> "Bus 1",
                  trips |-> <<T("bus1_0800", <<"A", "B", "C">>, <<8, 0>>),
                              T("bus1_0830", <<"A", "B", "C">>, <<8, 30>>)>>],
                 [route_id |-> "bus2", name |-> "Bus 2",
                  trips |-> <<T("bus2_0810", <<"B", "C", "D">>, <<8, 10>>)>>],
                 [route_id |-> "bus3", name |-> "Bus 3",
                  trips |-> <<T("bus3_0805", <<"A", "C">>, <<8, 5>>)>>] >>]

Datasets == {DataLine, DataStreets, DataCity}

\* streets only, with detours shorter than the direct edges: A-C-B (4)
\* against A-B (5), A-C-B-D (5) against the one-way A->D (7), two ways of
\* equal time from C to D, and a bus edge no local path may use
DataMesh ==
  [nodes |-> <<N("A"), N("B"), N("C"), N("D")>>,
   edges |-> <<E("A", "B", "local", 5, 50, FALSE), E("A", "D", "walk", 7, 0, TRUE),
               E("A", "C", "walk", 2, 0, FALSE), E("C", "B", "walk", 2, 0, FALSE),
               E("B", "D", "local", 1, 10, FALSE), E("C", "D", "local", 3, 5, FALSE),
               E("C", "D", "bus", 1, 0, FALSE)>>,
   routes |-> <<>>]

GraphDatasets == Datasets \cup {DataMesh}

\* two lines that meet at B and C: bus1 reaches C at 08:10 by its first
\* trip and at 08:09 by its second, bus2 leaves C at 08:25; a street from B
\* to D and none from C
DataFork ==
  [nodes |-> <<N("A"), N("B"), N("C"), N("D")>>,
   edges |-> <<E("B", "D", "local", 9, 30, FALSE)>>,
   routes |-> << [route_id |-> "bus1", name |-> "Bus 1",
                  trips |-> <<T("bus1_0800", <<"A", "B", "C">>, <<8, 0>>),
                              T("bus1_0759", <<"D", "A", "C">>, <<7, 59>>)>>],
                 [route_id |-> "bus2", name |-> "Bus 2",
                  trips |-> <<T("bus2_0820", <<"B", "C", "D">>, <<8, 20>>)>>] >>]

\* loadData, lines 505-526
loadData(data) ==
  LET ns == MapSetAll(nodes, "id", data.nodes)
      rs == MapSetAll(routes, "route_id", data.routes)
  IN /\ nodes' = ns
     /\ edges' = data.edges
     /\ routes' = rs
     /\ adjacencyList' = buildAdjacencyList(ns, data.edges)

\* the graph a process serves requests with: loaded once at start
GraphLoaded(data) ==
  /\ nodes = MapSetAll(<<>>, "id", data.nodes)
  /\ edges = data.edges
  /\ routes = MapSetAll(<<>>, "route_id", data.routes)
  /\ adjacencyList = buildAdjacencyList(nodes, edges)

----------------------------------------------------------------------------
(* The graph on its own: loads and queries *)

MaxLoads == 2

QueryIds == {"A", "B", "C", "D", "Z"}
QueryModes == {{"walk", "local"}, {"walk"}}

EmptyGraph ==
  /\ nodes = <<>>
  /\ edges = <<>>
  /\ routes = <<>>
  /\ adjacencyList = [id \in {} |-> <<>>]

NoQuery == [from |-> NULL, to |-> NULL, allowedModes |-> {}, result |-> NotFound]

Load(data) ==
  /\ Len(loaded) < MaxLoads
  /\ loadData(data)
  /\ loaded' = Append(loaded, data)
  /\ lastQuery' = NoQuery

Query(from, to, allowedModes) ==
  /\ lastQuery' = [from |-> from, to |-> to, allowedModes |-> allowedModes,
                   result |-> localShortestPath(from, to, allowedModes)]
  /\ UNCHANGED <<gvars, loaded>>

----------------------------------------------------------------------------
(* The Distance Matrix client on its own: direct callers, the clock, the   *)
(* administrative operations                                               *)

MaxCalls == 3

\* The callers are the slots of concurrent calls: a new call takes the
\* first free one.
Callers == {"c1", "c2"}
FirstFree(c) == c \notin Callers \/ c = "c1" \/ Busy("c1")

\* the (origin, destination, mode) triples asked for; Z is no node
Segments == {<<"A", "C", "driving">>, <<"A", "C", "walking">>, <<"Z", "C", "driving">>}

\* what the provider answers with for a pair
ResponseData == {[distanceMeters |-> 1200, durationSeconds |-> 290],
                 [distanceMeters |-> 9040, durationSeconds |-> 1500]}
NoData == [distanceMeters |-> 0, durationSeconds |-> 0]

EmptyCache == [k \in {} |-> NoData]

\* The usage a running process can have behind it when the behaviours
\* modelled start: <<dailyCount, monthlyCount>> after that many successful
\* lookups today and this month, the cache since cleared by clearCache().
StartUsage == {<<0, 0>>, <<DAILY_LIMIT - 1, DAILY_LIMIT - 1>>,
               <<DAILY_LIMIT - 1, MONTHLY_LIMIT - 1>>}

ClientAt(startCache) ==
  /\ apiKey \in BOOLEAN
  /\ cache = startCache
  /\ now = 0
  /\ \E u \in (IF apiKey THEN StartUsage ELSE {<<0, 0>>}) :
        usageStats = [monthlyCount |-> u[2], dailyCount |-> u[1],
                      lastReset |-> ISODate(0), cacheHits |-> 0,
                      cacheMisses |-> u[2]]
  /\ inflight = {}
  /\ calls = 0
  /\ requests = 0
  /\ lastStep = [kind |-> "start"]

ClientStarted == ClientAt(EmptyCache)

\* a caller calls getLocalSegment: the call runs to its return or to its
\* axios.get
CallBy(c, originNodeId, destNodeId, mode) ==
  LET b == getLocalSegmentBegin(originNodeId, destNodeId, mode)
      req == [caller |-> c, originNodeId |-> originNodeId, destNodeId |-> destNodeId,
              mode |-> mode, cacheKey |-> CacheKey(originNodeId, destNodeId, mode)]
  IN /\ ~Busy(c)
     /\ FirstFree(c)
     /\ usageStats' = b.usageStats
     /\ inflight' = IF b.issued THEN inflight \cup {req} ELSE inflight
     /\ calls' = calls + 1
     /\ requests' = IF b.issued THEN requests + 1 ELSE requests
     /\ lastStep' = [kind |-> "call", caller |-> c, cacheKey |-> req.cacheKey,
                     issued |-> b.issued, result |-> b.result]
     /\ UNCHANGED <<apiKey, cache, now>>

Call(c, originNodeId, destNodeId, mode) ==
  /\ calls < MaxCalls
  /\ CallBy(c, originNodeId, destNodeId, mode)

\* the external request of a suspended call ends and the call returns
Respond(req, outcome, data) ==
  LET e == getLocalSegmentEnd(req, outcome, data) IN
  /\ req \in inflight
  /\ usageStats' = e.usageStats
  /\ cache' = e.cache
  /\ inflight' = inflight \ {req}
  /\ lastStep' = [kind |-> "response", caller |-> req.caller, cacheKey |-> req.cacheKey,
                  outcome |-> outcome, result |-> e.result]
  /\ UNCHANGED <<apiKey, now, calls, requests>>

\* the clock moves on to a later instant
Tick(t) ==
  /\ t > now
  /\ now' = t
  /\ lastStep' = [kind |-> "tick"]
  /\ UNCHANGED <<apiKey, cache, usageStats, inflight, calls, requests>>

clearCache ==
  /\ cache # EmptyCache
  /\ cache' = EmptyCache
  /\ lastStep' = [kind |-> "clearCache"]
  /\ UNCHANGED <<apiKey, usageStats, now, inflight, calls, requests>>

resetCounters ==
  /\ usageStats' = [usageStats EXCEPT !.monthlyCount = 0, !.dailyCount = 0,
                                       !.cacheHits = 0, !.cacheMisses = 0]
  /\ usageStats' # usageStats
  /\ lastStep' = [kind |-> "resetCounters"]
  /\ UNCHANGED <<apiKey, cache, now, inflight, calls, requests>>

DataFor(outcome) == IF outcome = "ok" THEN ResponseData ELSE {NoData}

----------------------------------------------------------------------------
(* RoutePlanner.planRoute, lines 19-71, as a process: it runs from one     *)
(* await of getLocalSegment that suspends to the next.                     *)

MaxPlans == 1

PlanIds == {"A", "B", "C", "D"}
RequestTimes == {<<7, 55>>, <<8, 3>>}

Planner == "planner"

Idle ==
  [pc |-> "idle", from |-> NULL, to |-> NULL, requestTime |-> <<0, 0>>,
   options |-> <<>>, ri |-> 0, k |-> 0,
   hy |-> [bestOption |-> <<>>, minTotalTime |-> Infinity],
   dmCalls |-> 0, response |-> <<>>]

\* the check of line 35 left out
InvalidRequest_noSame(from, to) == ~hasNode(from) \/ ~hasNode(to)

\* lines 30 and 35: the requests answered with no options at once
InvalidRequest(from, to) == ~hasNode(from) \/ ~hasNode(to) \/ from = to

\* the options of the call before left in the list
Entered_stale(from, to, requestTime) ==
  IF InvalidRequest(from, to)
  THEN [Idle EXCEPT !.pc = "done", !.from = from, !.to = to,
                    !.requestTime = requestTime,
                    !.response = <<[from |-> from, to |-> to,
                                    requestTime |-> requestTime,
                                    options |-> <<>>]>>]
  ELSE [Idle EXCEPT !.pc = "routes", !.from = from, !.to = to,
                    !.requestTime = requestTime, !.ri = 1,
                    !.options = IF plan.response = <<>> THEN <<>>
                                ELSE plan.response[1].options]

\* lines 27-40: the validation, and the start of the loop over the routes
\* with fresh locals
Entered(from, to, requestTime) ==
  IF InvalidRequest(from, to)
  THEN [Idle EXCEPT !.pc = "done", !.from = from, !.to = to,
                    !.requestTime = requestTime,
                    !.response = <<[from |-> from, to |-> to,
                                    requestTime |-> requestTime,
                                    options |-> <<>>]>>]
  ELSE [Idle EXCEPT !.pc = "routes", !.from = from, !.to = to,
                    !.requestTime = requestTime, !.ri = 1]

planRoute(from, to, requestTime) ==
  /\ plan.pc \in {"idle", "done"}
  /\ plans < MaxPlans
  /\ plans' = plans + 1
  /\ plan' = Entered(from, to, requestTime)

\* lines 42-47: the direct option of the next route, or, the routes done,
\* on to the transfers
RouteStep ==
  /\ plan.pc = "routes"
  /\ plan' = IF plan.ri > Len(getAllRoutes) THEN [plan EXCEPT !.pc = "local"]
             ELSE [plan EXCEPT
                     !.pc = "hybrid",
                     !.options = @ \o directBusRoute(getAllRoutes[plan.ri], plan.from,
                                                     plan.to, plan.requestTime),
                     !.k = 1,
                     !.hy = [bestOption |-> <<>>, minTotalTime |-> Infinity]]
  /\ UNCHANGED plans

CurrentItems == DropOffs(getAllRoutes[plan.ri].trips, plan.from, plan.to)
CurrentDropOff == CurrentItems[plan.k].trip.stops[CurrentItems[plan.k].i + 1]

\* the best so far forgotten at each drop-off: the last one offered is kept
AfterDropOff_last(p, loc) ==
  [p EXCEPT !.pc = "hybrid", !.k = @ + 1,
            !.hy = IF loc = <<>> THEN @
                   ELSE HybridItem(getAllRoutes[p.ri], p.from, p.to, p.requestTime,
                                   CurrentItems[p.k], loc[1],
                                   [bestOption |-> <<>>, minTotalTime |-> Infinity])]

\* one iteration of busToLocalRoute given its local segment (or none: the
\* drop-off is skipped), then on to the next
AfterDropOff(p, loc) ==
  [p EXCEPT !.pc = "hybrid", !.k = @ + 1,
            !.hy = IF loc = <<>> THEN @
                   ELSE HybridItem(getAllRoutes[p.ri], p.from, p.to, p.requestTime,
                                   CurrentItems[p.k], loc[1], @)]

\* lines 50-53: busToLocalRoute has returned
HybridDone ==
  /\ plan.pc = "hybrid"
  /\ plan.k > Len(CurrentItems)
  /\ plan' = [plan EXCEPT !.pc = "routes", !.options = @ \o plan.hy.bestOption,
                          !.ri = @ + 1]
  /\ UNCHANGED plans

\* a drop-off the graph has a local path from
HybridGraph ==
  /\ plan.pc = "hybrid"
  /\ plan.k <= Len(CurrentItems)
  /\ localShortestPath(CurrentDropOff, plan.to, LocalModes).found
  /\ plan' = AfterDropOff(plan, <<LocalFromPath(
                 localShortestPath(CurrentDropOff, plan.to, LocalModes))>>)
  /\ UNCHANGED plans

\* dmResult.ok not looked at: a failure read with its "|| 0" defaults
LocOf_unchecked(result) ==
  <<LocalFromDM(IF result.ok THEN result
                ELSE [ok |-> FALSE, distanceMeters |-> 0, durationSeconds |-> 0,
                      fromCache |-> FALSE])>>

\* what a returned getLocalSegment gives a drop-off
LocOf(result) == IF result.ok THEN <<LocalFromDM(result)>> ELSE <<>>

\* a drop-off the graph has no local path from: getLocalSegment is called
HybridCall ==
  /\ plan.pc = "hybrid"
  /\ plan.k <= Len(CurrentItems)
  /\ ~localShortestPath(CurrentDropOff, plan.to, LocalModes).found
  /\ CallBy(Planner, CurrentDropOff, plan.to, "driving")
  /\ plan' = IF lastStep'.issued
             THEN [plan EXCEPT !.pc = "hybrid_wait", !.dmCalls = @ + 1]
             ELSE AfterDropOff([plan EXCEPT !.dmCalls = @ + 1], LocOf(lastStep'.result))
  /\ UNCHANGED plans

HybridReturn(req, outcome, data) ==
  /\ plan.pc = "hybrid_wait"
  /\ req.caller = Planner
  /\ Respond(req, outcome, data)
  /\ plan' = AfterDropOff(plan, LocOf(lastStep'.result))
  /\ UNCHANGED plans

\* lines 66-70: the ranking and the response
Finish(p, localOption) ==
  LET options == p.options \o localOption IN
  [p EXCEPT !.pc = "done", !.options = options,
            !.response = <<[from |-> p.from, to |-> p.to, requestTime |-> p.requestTime,
                            options |-> compareRoutes(options)]>>]

WithTransfers(p) ==
  [p EXCEPT !.options = @ \o findTransferRoutes(p.from, p.to, p.requestTime)]

\* lines 57-64 with a local path in the graph
LocalGraph ==
  /\ plan.pc = "local"
  /\ localShortestPath(plan.from, plan.to, LocalModes).found
  /\ plan' = Finish(WithTransfers(plan),
                    <<LocalOptionFromPath(
                        localShortestPath(plan.from, plan.to, LocalModes))>>)
  /\ UNCHANGED plans

LocalOf(p, result) ==
  IF result.ok THEN <<LocalOptionFromDM(p.from, p.to, result)>> ELSE <<>>

\* lines 57-64 without one: getLocalSegment is called
LocalCall ==
  /\ plan.pc = "local"
  /\ ~localShortestPath(plan.from, plan.to, LocalModes).found
  /\ CallBy(Planner, plan.from, plan.to, "driving")
  /\ plan' = IF lastStep'.issued
             THEN [WithTransfers(plan) EXCEPT !.pc = "local_wait", !.dmCalls = @ + 1]
             ELSE Finish([WithTransfers(plan) EXCEPT !.dmCalls = @ + 1],
                         LocalOf(plan, lastStep'.result))
  /\ UNCHANGED plans

LocalReturn(req, outcome, data) ==
  /\ plan.pc = "local_wait"
  /\ req.caller = Planner
  /\ Respond(req, outcome, data)
  /\ plan' = Finish(plan, LocalOf(plan, lastStep'.result))
  /\ UNCHANGED plans

----------------------------------------------------------------------------
(* Specifications *)

vars == <<gvars, lastQuery, dvars, loaded, plan, plans, history>>
pvars == <<plan, plans, history>>

InitGraph ==
  /\ EmptyGraph
  /\ loaded = <<>>
  /\ lastQuery = NoQuery
  /\ ClientStarted
  /\ ~apiKey
  /\ plan = Idle
  /\ plans = 0
  /\ history = <<>>

NextGraph ==
  \/ \E data \in GraphDatasets : Load(data) /\ UNCHANGED <<dvars, pvars>>
  \/ \E from \in QueryIds, to \in QueryIds, allowedModes \in QueryModes :
        Query(from, to, allowedModes) /\ UNCHANGED <<dvars, pvars>>

SpecGraph == InitGraph /\ [][NextGraph]_vars

InitClient ==
  /\ GraphLoaded(DataLine)
  /\ loaded = <<DataLine>>
  /\ lastQuery = NoQuery
  /\ ClientStarted
  /\ plan = Idle
  /\ plans = 0
  /\ history = <<>>

NextClient ==
  \/ \E c \in Callers, s \in Segments : Call(c, s[1], s[2], s[3]) /\ UNCHANGED <<gvars, lastQuery, loaded, pvars>>
  \/ \E req \in inflight, outcome \in Outcomes : \E data \in DataFor(outcome) :
        Respond(req, outcome, data) /\ UNCHANGED <<gvars, lastQuery, loaded, pvars>>
  \/ \E t \in Instants : Tick(t) /\ UNCHANGED <<gvars, lastQuery, loaded, pvars>>
  \/ clearCache /\ UNCHANGED <<gvars, lastQuery, loaded, pvars>>
  \/ resetCounters /\ UNCHANGED <<gvars, lastQuery, loaded, pvars>>

SpecClient == InitClient /\ [][NextClient]_vars

\* the outcomes of a request the planner can tell apart: a failure that
\* leaves the counts, one that raises them, and a success
PlanOutcomes == {"network_error", "status_not_ok", "ok"}

InitPlan ==
  /\ \E data \in Datasets : GraphLoaded(data) /\ loaded = <<data>>
  /\ lastQuery = NoQuery
  /\ ClientStarted
  /\ plan = Idle
  /\ plans = 0
  /\ history = <<>>

\* the steps of a planRoute call under way
PlanSteps ==
  \/ RouteStep /\ UNCHANGED <<gvars, lastQuery, loaded, dvars, history>>
  \/ HybridDone /\ UNCHANGED <<gvars, lastQuery, loaded, dvars, history>>
  \/ HybridGraph /\ UNCHANGED <<gvars, lastQuery, loaded, dvars, history>>
  \/ HybridCall /\ UNCHANGED <<gvars, lastQuery, loaded, history>>
  \/ \E req \in inflight, outcome \in PlanOutcomes : \E data \in DataFor(outcome) :
        HybridReturn(req, outcome, data) /\ UNCHANGED <<gvars, lastQuery, loaded, history>>
  \/ LocalGraph /\ UNCHANGED <<gvars, lastQuery, loaded, dvars, history>>
  \/ LocalCall /\ UNCHANGED <<gvars, lastQuery, loaded, history>>
  \/ \E req \in inflight, outcome \in PlanOutcomes : \E data \in DataFor(outcome) :
        LocalReturn(req, outcome, data) /\ UNCHANGED <<gvars, lastQuery, loaded, history>>

NextPlan ==
  \/ \E from \in PlanIds, to \in PlanIds, requestTime \in RequestTimes :
        planRoute(from, to, requestTime) /\ UNCHANGED <<gvars, lastQuery, loaded, dvars, history>>
  \/ PlanSteps

SpecPlan == InitPlan /\ [][NextPlan]_vars

\* The same request made twice, the second call after the first has
\* returned, by a process whose cache is empty or holds the pairs looked up
\* before (the counters reset or not since).
WarmCache ==
  [k \in {CacheKey(o, d, "driving") : o \in PlanIds, d \in PlanIds} |->
     [distanceMeters |-> IF k = CacheKey("B", "C", "driving") THEN 1200 ELSE 9040,
      durationSeconds |-> IF k = CacheKey("B", "C", "driving") THEN 290 ELSE 1500,
      timestamp |-> 0]]

\* what a call begins with
Began ==
  [cache |-> cache, cacheHits |-> usageStats.cacheHits, allCached |-> FALSE,
   options |-> <<>>]

\* every getLocalSegment call of the planRoute call just returned was
\* answered from the cache (vacuously if it made none)
AllCached(began) == usageStats.cacheHits - began.cacheHits = plan.dmCalls

planRouteFirst(from, to, requestTime) ==
  /\ history = <<>>
  /\ planRoute(from, to, requestTime)
  /\ history' = <<Began>>

planRouteAgain ==
  /\ plan.pc = "done"
  /\ Len(history) = 1
  /\ plan' = Entered(plan.from, plan.to, plan.requestTime)
  /\ history' = <<[history[1] EXCEPT !.options = plan.response[1].options,
                               !.allCached = AllCached(history[1])],
               Began>>
  /\ UNCHANGED plans

InitRepeat ==
  /\ \E data \in Datasets : GraphLoaded(data) /\ loaded = <<data>>
  /\ lastQuery = NoQuery
  /\ \E startCache \in {EmptyCache, WarmCache} : ClientAt(startCache)
  /\ cache # EmptyCache => apiKey
  /\ plan = Idle
  /\ plans = 0
  /\ history = <<>>

NextRepeat ==
  \/ \E from \in PlanIds, to \in PlanIds, requestTime \in RequestTimes :
        planRouteFirst(from, to, requestTime) /\ UNCHANGED <<gvars, lastQuery, loaded, dvars>>
  \/ planRouteAgain /\ UNCHANGED <<gvars, lastQuery, loaded, dvars>>
  \/ PlanSteps

SpecRepeat == InitRepeat /\ [][NextRepeat]_vars

\* The client with the successful external lookups remembered: what each
\* returned, for which key and when, until the next call for that key or
\* the next clearCache.
Returned(req, result) ==
  [cacheKey |-> req.cacheKey, distanceMeters |-> result.distanceMeters,
   durationSeconds |-> result.durationSeconds, timestamp |-> now]

OfKey(h, cacheKey) == SelectSeq(h, LAMBDA e : e.cacheKey = cacheKey)
NotOfKey(h, cacheKey) == SelectSeq(h, LAMBDA e : e.cacheKey # cacheKey)

LookupCall(c, originNodeId, destNodeId, mode) ==
  /\ Call(c, originNodeId, destNodeId, mode)
  /\ history' = NotOfKey(history, CacheKey(originNodeId, destNodeId, mode))

LookupRespond(req, outcome, data) ==
  /\ Respond(req, outcome, data)
  /\ history' = IF outcome = "ok" THEN Append(history, Returned(req, lastStep'.result))
                ELSE history

LookupClear ==
  /\ clearCache
  /\ history' = <<>>

InitLookup ==
  /\ GraphLoaded(DataLine)
  /\ loaded = <<DataLine>>
  /\ lastQuery = NoQuery
  /\ ClientStarted
  /\ apiKey
  /\ usageStats.monthlyCount = 0
  /\ plan = Idle
  /\ plans = 0
  /\ history = <<>>

NextLookup ==
  \/ \E c \in Callers, s \in Segments :
        LookupCall(c, s[1], s[2], s[3]) /\ UNCHANGED <<gvars, lastQuery, loaded, plan, plans>>
  \/ \E req \in inflight, outcome \in Outcomes : \E data \in DataFor(outcome) :
        LookupRespond(req, outcome, data) /\ UNCHANGED <<gvars, lastQuery, loaded, plan, plans>>
  \/ \E t \in Instants : Tick(t) /\ UNCHANGED <<gvars, lastQuery, loaded, pvars>>
  \/ LookupClear /\ UNCHANGED <<gvars, lastQuery, loaded, plan, plans>>

SpecLookup == InitLookup /\ [][NextLookup]_vars

\* planRoute over timetables, with what busToLocalRoute saw at each drop-off
\* of the route it is on remembered: the graph's local path (line 166) and
\* what getLocalSegment returned, if it was called (line 174).
Seen(dm) ==
  [localPath |-> localShortestPath(CurrentDropOff, plan.to, LocalModes), dm |-> dm]

InitTrips ==
  /\ \E data \in {DataLine, DataFork} : GraphLoaded(data) /\ loaded = <<data>>
  /\ lastQuery = NoQuery
  /\ ClientStarted
  /\ usageStats.monthlyCount = 0
  /\ plan = Idle
  /\ plans = 0
  /\ history = <<>>

NextTrips ==
  \/ \E from \in PlanIds, to \in PlanIds, requestTime \in RequestTimes :
        /\ planRoute(from, to, requestTime)
        /\ history' = <<>>
        /\ UNCHANGED <<gvars, lastQuery, loaded, dvars>>
  \/ RouteStep /\ history' = <<>> /\ UNCHANGED <<gvars, lastQuery, loaded, dvars>>
  \/ HybridDone /\ UNCHANGED <<gvars, lastQuery, loaded, dvars, history>>
  \/ /\ HybridGraph
     /\ history' = Append(history, Seen(<<>>))
     /\ UNCHANGED <<gvars, lastQuery, loaded, dvars>>
  \/ /\ HybridCall
     /\ history' = IF lastStep'.issued THEN history
                   ELSE Append(history, Seen(<<lastStep'.result>>))
     /\ UNCHANGED <<gvars, lastQuery, loaded>>
  \/ \E req \in inflight, outcome \in PlanOutcomes : \E data \in DataFor(outcome) :
        /\ HybridReturn(req, outcome, data)
        /\ history' = Append(history, Seen(<<lastStep'.result>>))
        /\ UNCHANGED <<gvars, lastQuery, loaded>>
  \/ LocalGraph /\ UNCHANGED <<gvars, lastQuery, loaded, dvars, history>>
  \/ LocalCall /\ UNCHANGED <<gvars, lastQuery, loaded, history>>
  \/ \E req \in inflight, outcome \in PlanOutcomes : \E data \in DataFor(outcome) :
        LocalReturn(req, outcome, data) /\ UNCHANGED <<gvars, lastQuery, loaded, history>>

SpecTrips == InitTrips /\ [][NextTrips]_vars

----------------------------------------------------------------------------
(* Properties *)

\* a step that is a getLocalSegment call, and one that is the return of a
\* suspended call
IsCall == calls' = calls + 1
IsResponse == inflight' # inflight /\ Cardinality(inflight') < Cardinality(inflight)

\* the counts as the lazy rollover of a call made now leaves them
DailyNow == IF usageStats.lastReset = ISODate(now) THEN usageStats.dailyCount ELSE 0
MonthlyNow ==
  IF MonthOf(usageStats.lastReset) = MonthOf(ISODate(now))
  THEN usageStats.monthlyCount ELSE 0

\* the key of the call just made has a cache entry younger than the TTL,
\* and one of the TTL's age or older
FreshEntry(key) ==
  key \in DOMAIN cache /\ now - cache[key].timestamp < CACHE_TTL_DAYS * TicksPerDay
ExpiredEntry(key) ==
  key \in DOMAIN cache /\ now - cache[key].timestamp >= CACHE_TTL_DAYS * TicksPerDay

CachedResult(key) ==
  [ok |-> TRUE, distanceMeters |-> cache[key].distanceMeters,
   durationSeconds |-> cache[key].durationSeconds, fromCache |-> TRUE]

\* C1 as claimed: once dailyCount has reached the daily limit, every
\* getLocalSegment call of that day returns the daily quota failure and
\* issues no external request.
C1_EveryCallRefusedDaily ==
  [][(IsCall /\ apiKey /\ usageStats.lastReset = ISODate(now)
        /\ usageStats.dailyCount >= DAILY_LIMIT)
     => (lastStep'.result = ErrDaily /\ requests' = requests)]_vars

\* C1 as amended: while dailyCount is at the daily limit and the date has
\* not rolled over, no getLocalSegment call issues an external request; a
\* call whose key has a valid cache entry is answered from the cache, any
\* other fails as monthly quota exceeded when monthlyCount is at its limit
\* too and as daily quota exceeded otherwise.
C1_QuotaDiscipline ==
  [][(IsCall /\ apiKey /\ usageStats.lastReset = ISODate(now)
        /\ usageStats.dailyCount >= DAILY_LIMIT)
     => /\ requests' = requests
        /\ inflight' = inflight
        /\ lastStep'.result =
             IF FreshEntry(lastStep'.cacheKey) THEN CachedResult(lastStep'.cacheKey)
             ELSE IF usageStats.monthlyCount >= MONTHLY_LIMIT THEN ErrMonthly
             ELSE ErrDaily]_vars

\* C1 witness: a call has just been refused as daily quota exceeded
C1_Witness ==
  /\ lastStep.kind = "call"
  /\ lastStep.result = ErrDaily
  /\ usageStats.dailyCount = DAILY_LIMIT
  /\ usageStats.lastReset = ISODate(now)

\* C2 as claimed: the options planRoute returns never hold two entries of
\* the same identity.
C2_NoDuplicateIdentity ==
  plan.pc = "done" =>
    \A i, j \in 1..Len(plan.response[1].options) :
      i < j => getOptionId(plan.response[1].options[i])
               # getOptionId(plan.response[1].options[j])

\* C3 as claimed: every call whose external request reaches the provider
\* adds one to dailyCount and to monthlyCount, an HTTP error answer included.
C3_ReachedProviderCounts ==
  [][(IsResponse /\ lastStep'.outcome \in ReachedProvider)
     => /\ usageStats'.dailyCount = usageStats.dailyCount + 1
        /\ usageStats'.monthlyCount = usageStats.monthlyCount + 1]_vars

\* C4 as claimed: a call answered from the cache adds one to cacheHits,
\* returns the cached data with fromCache, leaves dailyCount and
\* monthlyCount unchanged and issues no external request.
C4_HitLeavesCounts ==
  [][(IsCall /\ apiKey /\ FreshEntry(lastStep'.cacheKey))
     => /\ usageStats'.cacheHits = usageStats.cacheHits + 1
        /\ lastStep'.result = CachedResult(lastStep'.cacheKey)
        /\ usageStats'.dailyCount = usageStats.dailyCount
        /\ usageStats'.monthlyCount = usageStats.monthlyCount
        /\ requests' = requests]_vars

\* C4 as amended: a call answered from the cache adds one to cacheHits,
\* returns the cached data with fromCache, issues no external request and
\* never raises dailyCount or monthlyCount: each is left as the rollover of
\* the same call leaves it (zero if the day, the month, has changed, else
\* unchanged); and this whatever the counts are.
C4_CacheHit ==
  [][(IsCall /\ apiKey /\ FreshEntry(lastStep'.cacheKey))
     => /\ usageStats'.cacheHits = usageStats.cacheHits + 1
        /\ usageStats'.cacheMisses = usageStats.cacheMisses
        /\ lastStep'.result = CachedResult(lastStep'.cacheKey)
        /\ usageStats'.dailyCount = DailyNow
        /\ usageStats'.monthlyCount = MonthlyNow
        /\ requests' = requests
        /\ inflight' = inflight
        /\ cache' = cache]_vars

\* C4 witness: a call has just been answered from the cache with
\* dailyCount at its limit
C4_Witness ==
  /\ lastStep.kind = "call"
  /\ lastStep.result.ok
  /\ lastStep.result.fromCache
  /\ usageStats.dailyCount >= DAILY_LIMIT
  /\ usageStats.lastReset = ISODate(now)

\* C5: a cache entry of age CACHE_TTL_DAYS or more is not returned; with
\* quota left the call issues an external request, and a successful
\* request stores its result under the key with the time of its return.
C5_CacheTTL ==
  [][/\ (IsCall /\ apiKey /\ ExpiredEntry(lastStep'.cacheKey))
        => /\ ~lastStep'.result.ok
           /\ usageStats'.cacheHits = usageStats.cacheHits
           /\ (MonthlyNow < MONTHLY_LIMIT /\ DailyNow < DAILY_LIMIT)
                => (lastStep'.issued /\ requests' = requests + 1)
     /\ (IsResponse /\ lastStep'.outcome = "ok")
        => /\ lastStep'.cacheKey \in DOMAIN cache'
           /\ cache'[lastStep'.cacheKey] =
                [distanceMeters |-> lastStep'.result.distanceMeters,
                 durationSeconds |-> lastStep'.result.durationSeconds,
                 timestamp |-> now]
           /\ ~lastStep'.result.fromCache]_vars

\* C5 witness: a request has just been issued for a key whose entry is
\* exactly CACHE_TTL_DAYS old
C5_Witness ==
  /\ lastStep.kind = "call"
  /\ lastStep.issued
  /\ lastStep.cacheKey \in DOMAIN cache
  /\ now - cache[lastStep.cacheKey].timestamp = CACHE_TTL_DAYS * TicksPerDay

\* C6: without an API key a call returns the not-configured failure and
\* changes nothing of the client, the stored date included.
C6_NotConfigured ==
  [][(IsCall /\ ~apiKey)
     => /\ lastStep'.result = ErrNotConfigured
        /\ UNCHANGED <<cache, usageStats, inflight, requests>>]_vars

\* C6 witness: a call has just failed as not configured on a day that is
\* not the stored one
C6_Witness ==
  /\ lastStep.kind = "call"
  /\ lastStep.result = ErrNotConfigured
  /\ usageStats.lastReset # ISODate(now)

\* C7 as claimed: after a load the graph shows the dataset just loaded and
\* nothing of an earlier one.
C7_LoadReplaces ==
  Len(loaded) >= 1 =>
    LET data == loaded[Len(loaded)] IN
    /\ getAllNodes = MapSetAll(<<>>, "id", data.nodes)
    /\ getAllRoutes = MapSetAll(<<>>, "route_id", data.routes)
    /\ \A id \in QueryIds : hasNode(id) <=> id \in NodeIds(data.nodes)
    /\ DOMAIN adjacencyList = NodeIds(data.nodes)

\* C8: a request with an unknown endpoint or equal endpoints is answered
\* with no options and without a call to getLocalSegment.
C8_InvalidRequestEmpty ==
  (plan.pc # "idle" /\ (~hasNode(plan.from) \/ ~hasNode(plan.to) \/ plan.from = plan.to))
    => /\ plan.pc = "done"
       /\ plan.response[1].options = <<>>
       /\ plan.dmCalls = 0
       /\ inflight = {}

\* C8 witness: a request with equal, known endpoints has been answered
C8_Witness ==
  /\ plan.pc = "done"
  /\ plan.from = plan.to
  /\ hasNode(plan.from)
  /\ plan.response[1].options = <<>>

\* C9: the options returned are at most three, and none exactly when no
\* strategy produced a candidate.
C9_AtMostThree ==
  plan.pc = "done" =>
    /\ Len(plan.response[1].options) <= 3
    /\ (plan.response[1].options = <<>>) <=> (plan.options = <<>>)

\* C9 witness: four candidates of different identities, three returned
C9_Witness ==
  /\ plan.pc = "done"
  /\ Len(deduplicateOptions(plan.options)) >= 4
  /\ Len(plan.response[1].options) = 3

\* C10: the first option returned is the first of the unique candidates
\* with the least total time, relabelled as the fastest.
C10_FastestFirst ==
  (plan.pc = "done" /\ plan.response[1].options # <<>>) =>
    LET unique == deduplicateOptions(plan.options)
        first == plan.response[1].options[1]
    IN /\ first.category = "fastest"
       /\ first.label = "Fastest Route"
       /\ \E i \in 1..Len(unique) :
            /\ first = [unique[i] EXCEPT !.category = "fastest", !.label = "Fastest Route"]
            /\ \A j \in 1..Len(unique) : unique[j].totalTimeMin >= unique[i].totalTimeMin
            /\ \A j \in 1..(i - 1) : unique[j].totalTimeMin > unique[i].totalTimeMin

\* C10 witness: two unique candidates tie for the least total time
C10_Witness ==
  /\ plan.pc = "done"
  /\ LET unique == deduplicateOptions(plan.options) IN
     \E i, j \in 1..Len(unique) :
       /\ i < j
       /\ unique[i].totalTimeMin = unique[j].totalTimeMin
       /\ \A k \in 1..Len(unique) : unique[k].totalTimeMin >= unique[i].totalTimeMin

\* the place in unique of the first option of least value in a field
FirstLeast(unique, field) ==
  CHOOSE i \in 1..Len(unique) :
    /\ \A j \in 1..Len(unique) : unique[j][field] >= unique[i][field]
    /\ \A j \in 1..(i - 1) : unique[j][field] > unique[i][field]

\* C11: the first unique candidate of least local-transport time is the
\* second option returned, with category 'least_local' and label 'Least
\* Local Transport', when its identity is not that of the fastest one; when
\* it is, the candidate is returned once only, first and labelled fastest.
C11_LeastLocalSecond ==
  (plan.pc = "done" /\ plan.response[1].options # <<>>) =>
    LET unique == deduplicateOptions(plan.options)
        result == plan.response[1].options
        fastest == unique[FirstLeast(unique, "totalTimeMin")]
        leastLocal == unique[FirstLeast(unique, "localTimeMin")]
    IN IF getOptionId(leastLocal) # getOptionId(fastest)
       THEN /\ Len(result) >= 2
            /\ result[2] = [leastLocal EXCEPT !.category = "least_local",
                                              !.label = "Least Local Transport"]
       ELSE /\ {k \in 1..Len(result) : getOptionId(result[k]) = getOptionId(leastLocal)} = {1}
            /\ result[1] = [leastLocal EXCEPT !.category = "fastest",
                                              !.label = "Fastest Route"]

\* C11 witness: the candidate of least local time is not the fastest one
\* and is not the first enumerated either
C11_Witness ==
  /\ plan.pc = "done"
  /\ Len(plan.response[1].options) >= 2
  /\ plan.response[1].options[2].category = "least_local"
  /\ LET unique == deduplicateOptions(plan.options) IN
     /\ FirstLeast(unique, "localTimeMin") > 1
     /\ FirstLeast(unique, "totalTimeMin") # FirstLeast(unique, "localTimeMin")

\* both calls of the request have returned
BothReturned == plan.pc = "done" /\ Len(history) = 2

RECURSIVE HybridOverGraph(_, _, _, _, _, _)
HybridOverGraph(route, from, to, requestTime, k, hy) ==
  LET items == DropOffs(route.trips, from, to) IN
  IF k > Len(items) THEN hy.bestOption
  ELSE LET localPath == localShortestPath(items[k].trip.stops[items[k].i + 1], to,
                                          LocalModes)
       IN HybridOverGraph(route, from, to, requestTime, k + 1,
            IF localPath.found
            THEN HybridItem(route, from, to, requestTime, items[k],
                            LocalFromPath(localPath), hy)
            ELSE hy)

RECURSIVE OverRoutes(_, _, _, _)
OverRoutes(from, to, requestTime, ri) ==
  IF ri > Len(getAllRoutes) THEN <<>>
  ELSE directBusRoute(getAllRoutes[ri], from, to, requestTime)
       \o HybridOverGraph(getAllRoutes[ri], from, to, requestTime, 1,
                          [bestOption |-> <<>>, minTotalTime |-> Infinity])
       \o OverRoutes(from, to, requestTime, ri + 1)

WithoutProvider(from, to, requestTime) ==
  OverRoutes(from, to, requestTime, 1)
  \o findTransferRoutes(from, to, requestTime)
  \o (IF localShortestPath(from, to, LocalModes).found
      THEN <<LocalOptionFromPath(localShortestPath(from, to, LocalModes))>>
      ELSE <<>>)

\* a step in which a getLocalSegment call of the planner returns a failure
LookupFailed ==
  /\ lastStep' # lastStep
  /\ \/ lastStep'.kind = "call" /\ ~lastStep'.issued
     \/ lastStep'.kind = "response"
  /\ ~lastStep'.result.ok

\* C13: a getLocalSegment failure, whatever its kind, makes busToLocalRoute
\* skip the drop-off and go on, and localOnlyRoute give no option;
\* planRoute then returns the ranking of the candidates it has, which with
\* every lookup failing (no API key) are those found without the provider.
C13_FailuresAbsorbed ==
  [][/\ plan'.pc = "done" =>
          /\ Len(plan'.response) = 1
          /\ plan'.response[1].options = compareRoutes(plan'.options)
          /\ ~InvalidRequest(plan'.from, plan'.to) /\ ~apiKey
               => plan'.options = WithoutProvider(plan'.from, plan'.to, plan'.requestTime)
     /\ LookupFailed =>
          IF plan.pc \in {"hybrid", "hybrid_wait"}
          THEN /\ plan'.pc = "hybrid"
               /\ plan'.k = plan.k + 1
               /\ plan'.hy = plan.hy
               /\ plan'.options = plan.options
          ELSE /\ plan'.pc = "done"
               /\ plan'.options =
                    IF plan.pc = "local"
                    THEN plan.options \o findTransferRoutes(plan.from, plan.to,
                                                            plan.requestTime)
                    ELSE plan.options]_vars

\* C13 witness: planRoute has returned options although its last lookup
\* failed at the provider and an earlier one was made
C13_Witness ==
  /\ plan.pc = "done"
  /\ plan.dmCalls >= 2
  /\ lastStep.kind = "response"
  /\ ~lastStep.result.ok
  /\ plan.response[1].options # <<>>

\* The least time of a path over the edges of allowed modes, computed from
\* the edge list by repeated relaxation of all of them (Bellman-Ford), as
\* many rounds as there are nodes.
Hops(allowedModes) ==
  {<<e.from, e.to, e.time_min>> : e \in {x \in Range(edges) : x.mode \in allowedModes}}
  \cup {<<e.to, e.from, e.time_min>> :
          e \in {x \in Range(edges) : x.mode \in allowedModes /\ ~x.one_way}}

Least(S) == CHOOSE x \in S : \A y \in S : x <= y

RECURSIVE LeastTimes(_, _, _)
LeastTimes(dist, allowedModes, rounds) ==
  IF rounds = 0 THEN dist
  ELSE LeastTimes(
         [v \in DOMAIN dist |->
            Least({dist[v]} \cup {dist[h[1]] + h[3] :
                     h \in {x \in Hops(allowedModes) :
                              x[2] = v /\ x[1] \in DOMAIN dist /\ dist[x[1]] < Infinity}})],
         allowedModes, rounds - 1)

LeastTime(from, to, allowedModes) ==
  LeastTimes([v \in NodeIds(nodes) |-> IF v = from THEN 0 ELSE Infinity],
             allowedModes, Len(nodes))[to]

Queried == lastQuery.from # NULL
KnownEnds == hasNode(lastQuery.from) /\ hasNode(lastQuery.to)

\* C14: for known nodes with the destination reachable over edges of the
\* allowed modes, localShortestPath returns found with the least total
\* time of any such path.
C14_DijkstraOptimal ==
  (Queried /\ KnownEnds
     /\ LeastTime(lastQuery.from, lastQuery.to, lastQuery.allowedModes) < Infinity)
    => /\ lastQuery.result.found
       /\ lastQuery.result.totalTime =
            LeastTime(lastQuery.from, lastQuery.to, lastQuery.allowedModes)

\* C14 witness: the least time is that of a detour, shorter than a direct
\* edge of an allowed mode
C14_Witness ==
  /\ Queried
  /\ lastQuery.result.found
  /\ Len(lastQuery.result.path) >= 3
  /\ \E h \in Hops(lastQuery.allowedModes) :
       /\ h[1] = lastQuery.from
       /\ h[2] = lastQuery.to
       /\ h[3] > lastQuery.result.totalTime

\* C15: for an unknown node, or a destination not reachable over edges of
\* the allowed modes, localShortestPath returns not found, an infinite
\* time, an empty path and no edges.
C15_Unreachable ==
  (Queried /\ (~KnownEnds
                \/ LeastTime(lastQuery.from, lastQuery.to, lastQuery.allowedModes)
                     >= Infinity))
    => /\ ~lastQuery.result.found
       /\ lastQuery.result.totalTime = Infinity
       /\ lastQuery.result.path = <<>>
       /\ lastQuery.result.edges = <<>>

\* C15 witness: known nodes joined by an edge, but none of an allowed mode
\* and no path
C15_Witness ==
  /\ Queried
  /\ KnownEnds
  /\ ~lastQuery.result.found
  /\ \E e \in Range(edges) : e.from = lastQuery.from /\ e.to = lastQuery.to

\* C16: from a known node to itself localShortestPath returns found, the
\* path of that node alone, time 0, cost 0 and no edges.
C16_SameNode ==
  (Queried /\ lastQuery.from = lastQuery.to /\ hasNode(lastQuery.from))
    => lastQuery.result =
         [found |-> TRUE, path |-> <<lastQuery.from>>, totalTime |-> 0,
          totalCost |-> 0, edges |-> <<>>]

\* C16 witness: such a query on a node that has edges of the allowed modes
C16_Witness ==
  /\ Queried
  /\ lastQuery.from = lastQuery.to
  /\ lastQuery.result.found
  /\ \E h \in Hops(lastQuery.allowedModes) : h[1] = lastQuery.from

\* C17 as claimed: the daily quota is 25: a call that misses the cache,
\* with the monthly count below 700, is refused as daily quota exceeded
\* once 25 external calls have been counted on the current day.
C17_DailyLimit25 ==
  [][(IsCall /\ apiKey /\ ~FreshEntry(lastStep'.cacheKey)
        /\ usageStats.lastReset = ISODate(now)
        /\ usageStats.monthlyCount < 700
        /\ usageStats.dailyCount >= DOCUMENTED_DAILY_LIMIT)
     => (lastStep'.result = ErrDaily /\ ~lastStep'.issued)]_vars

\* the successful lookups of the key of the call being made that are
\* younger than the TTL, in the order of their returns
Remembered == OfKey(history, lastStep'.cacheKey)
WithinTTL(e) == now - e.timestamp < CACHE_TTL_DAYS * TicksPerDay

FromCache(e) ==
  [ok |-> TRUE, distanceMeters |-> e.distanceMeters,
   durationSeconds |-> e.durationSeconds, fromCache |-> TRUE]

\* a successful lookup returns: its data are stored under the key with
\* the current time and returned with fromCache false
StoredOnSuccess ==
  (IsResponse /\ lastStep'.outcome = "ok")
    => /\ ~lastStep'.result.fromCache
       /\ lastStep'.cacheKey \in DOMAIN cache'
       /\ cache'[lastStep'.cacheKey] =
            [distanceMeters |-> lastStep'.result.distanceMeters,
             durationSeconds |-> lastStep'.result.durationSeconds,
             timestamp |-> now]

\* C18 as claimed: a successful lookup stores what it returns, and the
\* next call for its key within the TTL, no clearCache in between, returns
\* the distance and duration that lookup returned, from the cache and
\* without an external request.
C18_NextCallSame ==
  [][/\ StoredOnSuccess
     /\ IsCall =>
          \A i \in 1..Len(Remembered) :
            WithinTTL(Remembered[i])
              => (lastStep'.result = FromCache(Remembered[i]) /\ requests' = requests)]_vars

\* C18 as amended: the next call returns the distance and duration of the
\* latest successful lookup for the key to have returned before it; an
\* earlier one that returned while that one was under way is overwritten.
C18_CacheRoundTrip ==
  [][/\ StoredOnSuccess
     /\ (IsCall /\ Remembered # <<>>) =>
          LET latest == Remembered[Len(Remembered)] IN
          WithinTTL(latest)
            => /\ lastStep'.result = FromCache(latest)
               /\ requests' = requests
               /\ inflight' = inflight]_vars

\* C18 witness: a call made later than the lookup whose result it returns
C18_Witness ==
  /\ lastStep.kind = "call"
  /\ lastStep.result.ok
  /\ lastStep.result.fromCache
  /\ history = <<>>
  /\ now > cache[lastStep.cacheKey].timestamp
  /\ usageStats.monthlyCount = 1

\* C19: every call on a configured client first rolls the counters over:
\* on a date other than the stored one dailyCount becomes 0, monthlyCount
\* becomes 0 if the month differs as well and is kept if it does not, and
\* the stored date becomes today's; on the stored date both are kept.  (The
\* call itself raises neither: the counts go up when a request returns.)
C19_LazyRollover ==
  [][(IsCall /\ apiKey) =>
       LET today == ISODate(now)
           newDay == usageStats.lastReset # today
           newMonth == usageStats.lastReset[1] # today[1]
       IN /\ usageStats'.lastReset = today
          /\ usageStats'.dailyCount = IF newDay THEN 0 ELSE usageStats.dailyCount
          /\ usageStats'.monthlyCount =
               IF newDay /\ newMonth THEN 0 ELSE usageStats.monthlyCount]_vars

\* C19 witness: the first call, on a later day of the month the counts
\* were run up in: dailyCount zeroed, monthlyCount kept
C19_Witness ==
  /\ lastStep.kind = "call"
  /\ apiKey
  /\ calls = 1
  /\ now > 0
  /\ usageStats.lastReset = ISODate(now)
  /\ usageStats.lastReset[1] = 0
  /\ usageStats.dailyCount = 0
  /\ usageStats.monthlyCount = DAILY_LIMIT - 1

\* a call that misses the cache and is refused for quota
Refused == lastStep'.result \in {ErrMonthly, ErrDaily}

\* the order of the checks on a miss: with the monthly count at its limit
\* the monthly failure, whatever the daily count and the nodes; else with
\* the daily count at its limit the daily failure, whatever the nodes
QuotaOrder ==
  (IsCall /\ apiKey /\ ~FreshEntry(lastStep'.cacheKey)) =>
    /\ MonthlyNow >= MONTHLY_LIMIT => lastStep'.result = ErrMonthly
    /\ (MonthlyNow < MONTHLY_LIMIT /\ DailyNow >= DAILY_LIMIT)
         => lastStep'.result = ErrDaily
    /\ Refused => (MonthlyNow >= MONTHLY_LIMIT \/ DailyNow >= DAILY_LIMIT)

\* C20 as claimed: the monthly check comes before the daily one and both
\* before the nodes are looked up and a request is issued; a call refused
\* for quota issues no request and changes neither count nor the cache.
C20_RefusalChangesNothing ==
  [][/\ QuotaOrder
     /\ (IsCall /\ Refused) =>
          /\ ~lastStep'.issued
          /\ requests' = requests
          /\ cache' = cache
          /\ usageStats'.dailyCount = usageStats.dailyCount
          /\ usageStats'.monthlyCount = usageStats.monthlyCount]_vars

\* C20 as amended: a call refused for quota issues no request, leaves the
\* cache unchanged and raises neither count; the counts are as the
\* rollover of the same call leaves them (a call refused for the monthly
\* quota on a new day of the month zeroes dailyCount).
C20_QuotaChecksFirst ==
  [][/\ QuotaOrder
     /\ (IsCall /\ Refused) =>
          /\ ~lastStep'.issued
          /\ requests' = requests
          /\ inflight' = inflight
          /\ cache' = cache
          /\ usageStats'.dailyCount = DailyNow
          /\ usageStats'.monthlyCount = MonthlyNow]_vars

\* C20 witness: a call for an unknown node refused for the monthly quota
\* with the daily count at its limit too
C20_Witness ==
  /\ lastStep.kind = "call"
  /\ lastStep.result = ErrMonthly
  /\ lastStep.cacheKey = CacheKey("Z", "C", "driving")
  /\ usageStats.dailyCount >= DAILY_LIMIT
  /\ usageStats.monthlyCount >= MONTHLY_LIMIT

\* a time of day in minutes, and the time of day a number of minutes is
Minutes(t) == t[1] * 60 + t[2]
Clock(m) == <<(m % 1440) \div 60, (m % 1440) % 60>>

\* the candidates of the Direct strategy: one leg, by bus
IsDirectCandidate(o) == Len(o.legs) = 1 /\ o.legs[1].mode = "bus"

\* the trip serves both stops, the origin first
InOrder(trip, from, to) ==
  \E i, j \in 1..Len(trip.stops) :
    /\ i < j
    /\ trip.stops[i] = from /\ \A x \in 1..(i - 1) : trip.stops[x] # from
    /\ trip.stops[j] = to /\ \A x \in 1..(j - 1) : trip.stops[x] # to

\* the estimated boarding time at a stop of a trip, in minutes
BoardingAt(trip, stop) ==
  Minutes(trip.departure_time)
  + 5 * ((CHOOSE i \in 1..Len(trip.stops) :
            trip.stops[i] = stop /\ \A x \in 1..(i - 1) : trip.stops[x] # stop) - 1)

\* the routes whose Direct and Hybrid strategies have been run
RoutesDone ==
  IF plan.pc \in {"local", "local_wait", "done"} THEN Len(routes)
  ELSE IF plan.pc \in {"routes", "hybrid", "hybrid_wait"} THEN plan.ri - 1
  ELSE 0

\* C21: every direct candidate is of a trip that serves the origin at an
\* index i and the destination at an index j > i and that boards, at
\* departure_time + 5*i, no earlier than the requested time; it departs
\* then, rides 5*(j-i), arrives at boarding + ride and takes
\* (boarding - requested) + ride in total.  A route with such a trip gives a
\* candidate.  One trip [A,B,C] at 08:00 and planRoute(A,C,07:55) give one
\* direct candidate, 08:00 to 08:10, total 15.
C21_DirectTiming ==
  /\ \A n \in 1..Len(plan.options) :
       IsDirectCandidate(plan.options[n]) =>
         LET o == plan.options[n]
             leg == o.legs[1]
         IN \E r \in 1..Len(routes) : \E k \in 1..Len(routes[r].trips) :
              LET trip == routes[r].trips[k] IN
              /\ leg.route_id = routes[r].route_id
              /\ leg.trip_id = trip.trip_id
              /\ leg.from = plan.from
              /\ leg.to = plan.to
              /\ InOrder(trip, plan.from, plan.to)
              /\ BoardingAt(trip, plan.from) >= Minutes(plan.requestTime)
              /\ leg.departure = Clock(BoardingAt(trip, plan.from))
              /\ leg.durationMin = BoardingAt(trip, plan.to) - BoardingAt(trip, plan.from)
              /\ leg.arrival = Clock(BoardingAt(trip, plan.to))
              /\ o.totalTimeMin = BoardingAt(trip, plan.to) - Minutes(plan.requestTime)
  /\ \A r \in 1..RoutesDone :
       (plan.from # plan.to
        /\ \E k \in 1..Len(routes[r].trips) :
             /\ InOrder(routes[r].trips[k], plan.from, plan.to)
             /\ BoardingAt(routes[r].trips[k], plan.from) >= Minutes(plan.requestTime))
         => \E n \in 1..Len(plan.options) :
              /\ IsDirectCandidate(plan.options[n])
              /\ plan.options[n].legs[1].route_id = routes[r].route_id
  /\ (loaded = <<DataLine>> /\ plan.pc = "done" /\ plan.from = "A" /\ plan.to = "C"
        /\ plan.requestTime = <<7, 55>>)
       => LET direct == SelectSeq(plan.options, IsDirectCandidate) IN
          /\ Len(direct) = 1
          /\ direct[1].legs[1].departure = <<8, 0>>
          /\ direct[1].legs[1].arrival = <<8, 10>>
          /\ direct[1].legs[1].durationMin = 10
          /\ direct[1].totalTimeMin = 15

\* C21 witness: a direct candidate boarded at the second stop of its trip,
\* at 08:04 for a request of 08:03, the trip listed before it having left
C21_Witness ==
  /\ plan.pc = "done"
  /\ plan.requestTime = <<8, 3>>
  /\ \E n \in 1..Len(plan.options) :
       /\ IsDirectCandidate(plan.options[n])
       /\ plan.options[n].legs[1].trip_id = "bus1_0759"
       /\ plan.options[n].legs[1].departure = <<8, 4>>
       /\ plan.options[n].legs[1].arrival = <<8, 9>>
       /\ plan.options[n].totalTimeMin = 6

\* C22 as claimed: every trip of a route that serves both stops in order
\* and has not left at the requested time has a direct candidate of its own
\* in the working set.
C22_OnePerQualifyingTrip ==
  \A r \in 1..RoutesDone : \A k \in 1..Len(routes[r].trips) :
    (plan.from # plan.to
     /\ InOrder(routes[r].trips[k], plan.from, plan.to)
     /\ BoardingAt(routes[r].trips[k], plan.from) >= Minutes(plan.requestTime))
      => \E n \in 1..Len(plan.options) :
           /\ IsDirectCandidate(plan.options[n])
           /\ plan.options[n].legs[1].trip_id = routes[r].trips[k].trip_id

\* C23 as claimed: every call on a configured client that is not answered
\* from the cache adds one to cacheMisses, a call refused for quota or for
\* its nodes included.
C23_EveryMissCounted ==
  [][(IsCall /\ apiKey /\ ~FreshEntry(lastStep'.cacheKey))
     => usageStats'.cacheMisses = usageStats.cacheMisses + 1]_vars

\* the candidates of the Hybrid strategy: a bus leg, then a local leg
IsHybridCandidate(o) ==
  Len(o.legs) = 2 /\ o.legs[1].mode = "bus" /\ o.legs[2].mode = "local"

\* the place of a stop in a trip, 0 if the trip does not serve it
Place(trip, stop) ==
  IF \E i \in 1..Len(trip.stops) : trip.stops[i] = stop
  THEN CHOOSE i \in 1..Len(trip.stops) :
         trip.stops[i] = stop /\ \A x \in 1..(i - 1) : trip.stops[x] # stop
  ELSE 0

\* the (trip, drop-off) pairs of a route for the request under way, as
\* <<place of the trip, place of the stop>>: the trip serves the origin, the
\* stop comes later in it and is not the destination; and their order
Pairs(route) ==
  {p \in UNION {{<<k, i>> : i \in 1..Len(route.trips[k].stops)} :
                  k \in 1..Len(route.trips)} :
     /\ Place(route.trips[p[1]], plan.from) > 0
     /\ p[2] > Place(route.trips[p[1]], plan.from)
     /\ route.trips[p[1]].stops[p[2]] # plan.to}

Before(p, q) == p[1] < q[1] \/ (p[1] = q[1] /\ p[2] < q[2])

PairAt(route, n) ==
  CHOOSE p \in Pairs(route) :
    Cardinality({q \in Pairs(route) : Before(q, p)}) = n - 1

\* the route whose Hybrid strategy is being run or has just been
InHybrid ==
  plan.pc \in {"hybrid", "hybrid_wait"} \/ (plan.pc = "routes" /\ plan.ri > 1)
HybridRoute == routes[IF plan.pc = "routes" THEN plan.ri - 1 ELSE plan.ri]

\* the minutes of the continuation seen at a drop-off, if there is one:
\* the graph's local path or, failing that, the provider's answer
Continuation(e) ==
  IF e.localPath.found THEN <<e.localPath.totalTime>>
  ELSE IF e.dm # <<>> /\ e.dm[1].ok
  THEN <<(2 * e.dm[1].durationSeconds + 60) \div 120>>
  ELSE <<>>

\* the n-th pair visited can be taken, and its total time
Offered(n) ==
  /\ Continuation(history[n]) # <<>>
  /\ BoardingAt(HybridRoute.trips[PairAt(HybridRoute, n)[1]], plan.from)
       >= Minutes(plan.requestTime)

TotalOf(n) ==
  LET p == PairAt(HybridRoute, n)
      trip == HybridRoute.trips[p[1]]
  IN (BoardingAt(trip, plan.from) - Minutes(plan.requestTime))
     + 5 * (p[2] - Place(trip, plan.from))
     + Continuation(history[n])[1]

\* C24: the working set holds at most one hybrid candidate per route; the
\* one busToLocalRoute keeps is, of the (trip, drop-off) pairs visited whose
\* trip has not left and whose continuation the graph or else the provider
\* gave, the first of least total time (wait + ride + continuation), and
\* none if there is no such pair; it is what the route adds to the set.
C24_HybridBest ==
  /\ \A r \in 1..Len(routes) :
       Cardinality({n \in 1..Len(plan.options) :
                      /\ IsHybridCandidate(plan.options[n])
                      /\ plan.options[n].legs[1].route_id = routes[r].route_id}) <= 1
  /\ InHybrid =>
       /\ Len(history) <= Cardinality(Pairs(HybridRoute))
       /\ plan.pc = "routes" =>
            /\ Len(history) = Cardinality(Pairs(HybridRoute))
            /\ SelectSeq(plan.options,
                         LAMBDA o : /\ IsHybridCandidate(o)
                                    /\ o.legs[1].route_id = HybridRoute.route_id)
                 = plan.hy.bestOption
       /\ LET offered == {n \in 1..Len(history) : Offered(n)} IN
          IF offered = {} THEN plan.hy.bestOption = <<>>
          ELSE LET b == CHOOSE n \in offered :
                          \A m \in offered :
                            \/ TotalOf(m) > TotalOf(n)
                            \/ TotalOf(m) = TotalOf(n) /\ m >= n
                   p == PairAt(HybridRoute, b)
                   trip == HybridRoute.trips[p[1]]
               IN /\ Len(plan.hy.bestOption) = 1
                  /\ IsHybridCandidate(plan.hy.bestOption[1])
                  /\ plan.hy.bestOption[1].totalTimeMin = TotalOf(b)
                  /\ plan.hy.bestOption[1].legs[1].trip_id = trip.trip_id
                  /\ plan.hy.bestOption[1].legs[1].from = plan.from
                  /\ plan.hy.bestOption[1].legs[1].to = trip.stops[p[2]]
                  /\ plan.hy.bestOption[1].legs[2].from = trip.stops[p[2]]
                  /\ plan.hy.bestOption[1].legs[2].to = plan.to
                  /\ plan.hy.bestOption[1].legs[2].durationMin
                       = Continuation(history[b])[1]
                  /\ plan.hy.bestOption[1].usesDistanceMatrix
                       = ~history[b].localPath.found

\* C24 witness: a route done with three pairs visited, the first continued
\* over the graph and the third by the provider with the same, least total
\* time, the second slower; the first is kept
C24_Witness ==
  /\ plan.pc = "routes"
  /\ plan.ri > 1
  /\ Len(history) = 3
  /\ Offered(1) /\ Offered(2) /\ Offered(3)
  /\ history[1].localPath.found
  /\ ~history[3].localPath.found
  /\ TotalOf(1) = TotalOf(3)
  /\ TotalOf(2) > TotalOf(1)
  /\ plan.hy.bestOption # <<>>
  /\ ~plan.hy.bestOption[1].usesDistanceMatrix

\* the candidates of the Transfer strategy
IsTransferCandidate(o) == o.type = "transfer"

\* the trips of a route that a leg can be of
TripsOf(route_id, trip_id) ==
  {trip \in UNION {Range(routes[r].trips) :
                     r \in {x \in 1..Len(routes) : routes[x].route_id = route_id}} :
     trip.trip_id = trip_id}

\* C25: every transfer candidate has two bus legs of two different routes
\* that meet at a stop both routes serve, from the origin and to the
\* destination, each leg with the times of its trip; the second leg boards
\* no earlier than the first arrives and at most 15 minutes later.
C25_TransferWait ==
  \A n \in 1..Len(plan.options) :
    IsTransferCandidate(plan.options[n]) =>
      LET legs == plan.options[n].legs IN
      /\ Len(legs) = 2
      /\ legs[1].mode = "bus" /\ legs[2].mode = "bus"
      /\ legs[1].route_id # legs[2].route_id
      /\ legs[1].from = plan.from
      /\ legs[2].to = plan.to
      /\ legs[1].to = legs[2].from
      /\ \E trip1 \in TripsOf(legs[1].route_id, legs[1].trip_id) :
           /\ InOrder(trip1, plan.from, legs[1].to)
           /\ legs[1].arrival = Clock(BoardingAt(trip1, legs[1].to))
      /\ \E trip2 \in TripsOf(legs[2].route_id, legs[2].trip_id) :
           /\ InOrder(trip2, legs[2].from, plan.to)
           /\ legs[2].departure = Clock(BoardingAt(trip2, legs[2].from))
      /\ Minutes(legs[2].departure) - Minutes(legs[1].arrival) >= 0
      /\ Minutes(legs[2].departure) - Minutes(legs[1].arrival) <= 15

\* C25 witness: a transfer returned with a wait of exactly 15 minutes
C25_Witness ==
  /\ plan.pc = "done"
  /\ \E n \in 1..Len(plan.response[1].options) :
       LET o == plan.response[1].options[n] IN
       /\ IsTransferCandidate(o)
       /\ Minutes(o.legs[2].departure) - Minutes(o.legs[1].arrival) = 15

\* the descriptors an edge record gives a node: one to its far end if the
\* record starts at the node, one to its start if it ends there and is not
\* one-way
DescriptorsAt(id, e) ==
  (IF e.from = id
   THEN <<[to |-> e.to, mode |-> e.mode, route_ids |-> e.route_ids,
           time_min |-> e.time_min, cost |-> e.cost]>>
   ELSE <<>>)
  \o (IF e.to = id /\ ~e.one_way
      THEN <<[to |-> e.from, mode |-> e.mode, route_ids |-> e.route_ids,
              time_min |-> e.time_min, cost |-> e.cost]>>
      ELSE <<>>)

\* how often a descriptor stands in a sequence of them
Times(d, ds) == Cardinality({i \in 1..Len(ds) : ds[i] = d})

\* C26: after a load the neighbours of a node are the descriptors its edge
\* records give it, each as often as given: from->to for every record, and
\* to->from with the same mode, route_ids, time_min and cost for a record
\* that is not one-way and for no other; a node no record touches and an
\* unknown id have no neighbours.
C26_AdjacencyBothWays ==
  Len(loaded) >= 1 =>
    \A id \in QueryIds :
      /\ \A i \in 1..Len(edges) : \A k \in 1..Len(DescriptorsAt(id, edges[i])) :
           LET d == DescriptorsAt(id, edges[i])[k] IN
           Times(d, getNeighbors(id))
             = Cardinality({<<j, l>> \in (1..Len(edges)) \X (1..2) :
                              /\ l <= Len(DescriptorsAt(id, edges[j]))
                              /\ DescriptorsAt(id, edges[j])[l] = d})
      /\ \A n \in 1..Len(getNeighbors(id)) :
           \E i \in 1..Len(edges) :
             \E k \in 1..Len(DescriptorsAt(id, edges[i])) :
               DescriptorsAt(id, edges[i])[k] = getNeighbors(id)[n]
      /\ (~hasNode(id) \/ \A i \in 1..Len(edges) : edges[i].from # id /\ edges[i].to # id)
           => getNeighbors(id) = <<>>

\* C26 witness: a graph with a record that is not one-way, a one-way record
\* whose far end has no descriptor back, and a known node no record touches
C26_Witness ==
  /\ Len(loaded) >= 1
  /\ \E i \in 1..Len(edges) :
       /\ ~edges[i].one_way
       /\ \E n \in 1..Len(getNeighbors(edges[i].to)) :
            getNeighbors(edges[i].to)[n].to = edges[i].from
  /\ \E i \in 1..Len(edges) :
       /\ edges[i].one_way
       /\ \A n \in 1..Len(getNeighbors(edges[i].to)) :
            getNeighbors(edges[i].to)[n].to # edges[i].from
  /\ \E id \in QueryIds :
       /\ hasNode(id)
       /\ \A i \in 1..Len(edges) : edges[i].from # id /\ edges[i].to # id
       /\ getNeighbors(id) = <<>>

\* the sum of a field over a sequence of records
RECURSIVE SumOf(_, _)
SumOf(recs, field) ==
  IF recs = <<>> THEN 0 ELSE Head(recs)[field] + SumOf(Tail(recs), field)

\* C27: a found result has a path from the origin to the destination and
\* one edge descriptor per step of it, each of an allowed mode, among the
\* neighbours of the node it leaves and leading to the next node; its total
\* time is the sum of the descriptors' time_min and its total cost the sum
\* of their cost.
C27_PathWellFormed ==
  (Queried /\ lastQuery.result.found) =>
    LET r == lastQuery.result IN
    /\ Len(r.path) >= 1
    /\ r.path[1] = lastQuery.from
    /\ r.path[Len(r.path)] = lastQuery.to
    /\ Len(r.edges) = Len(r.path) - 1
    /\ \A i \in 1..Len(r.edges) :
         /\ r.edges[i].mode \in lastQuery.allowedModes
         /\ r.edges[i].to = r.path[i + 1]
         /\ r.edges[i] \in Range(getNeighbors(r.path[i]))
    /\ r.totalTime = SumOf(r.edges, "time_min")
    /\ r.totalCost = SumOf(r.edges, "cost")

\* C27 witness: a path of two edges found, dearer than a direct edge of an
\* allowed mode that takes longer
C27_Witness ==
  /\ Queried
  /\ lastQuery.result.found
  /\ Len(lastQuery.result.edges) = 2
  /\ lastQuery.result.totalCost > 0
  /\ \E n \in 1..Len(getNeighbors(lastQuery.from)) :
       LET d == getNeighbors(lastQuery.from)[n] IN
       /\ d.to = lastQuery.to
       /\ d.mode \in lastQuery.allowedModes
       /\ d.cost < lastQuery.result.totalCost
       /\ d.time_min > lastQuery.result.totalTime

\* C28 as claimed: with calls suspended at their external requests while
\* others run, dailyCount and monthlyCount never exceed their limits.
C28_NeverOverLimit ==
  /\ usageStats.dailyCount <= DAILY_LIMIT
  /\ usageStats.monthlyCount <= MONTHLY_LIMIT

\* C29: a call that fails, at once or when its request returns, leaves the
\* cache as it was, expired entries included (and so does a call answered
\* from the cache or suspended at its request); the cache changes only
\* when a successful request returns, by the entry of its key, and when
\* clearCache empties it.
C29_FailureKeepsCache ==
  [][/\ IsCall => cache' = cache
     /\ (IsResponse /\ ~lastStep'.result.ok) => cache' = cache
     /\ cache' # cache =>
          \/ /\ IsResponse
             /\ lastStep'.outcome = "ok"
             /\ DOMAIN cache' = DOMAIN cache \cup {lastStep'.cacheKey}
             /\ \A k \in DOMAIN cache \ {lastStep'.cacheKey} : cache'[k] = cache[k]
          \/ /\ lastStep'.kind = "clearCache"
             /\ cache' = EmptyCache]_vars

\* C29 witness: a request has just failed for a key whose expired entry is
\* still in the cache
C29_Witness ==
  /\ lastStep.kind = "response"
  /\ ~lastStep.result.ok
  /\ ExpiredEntry(lastStep.cacheKey)

\* C30 as claimed: planRoute calls getLocalSegment only for a pair the
\* graph has no local path for, and busToLocalRoute only at a drop-off of
\* a trip that has not left at the requested time.
C30_OnlyBoardableTrips ==
  [][(IsCall /\ plan.pc \in {"hybrid", "local"}) =>
       IF plan.pc = "hybrid"
       THEN /\ lastStep'.cacheKey = CacheKey(CurrentDropOff, plan.to, "driving")
            /\ ~localShortestPath(CurrentDropOff, plan.to, LocalModes).found
            /\ BoardingAt(CurrentItems[plan.k].trip, plan.from)
                 >= Minutes(plan.requestTime)
       ELSE /\ lastStep'.cacheKey = CacheKey(plan.from, plan.to, "driving")
            /\ ~localShortestPath(plan.from, plan.to, LocalModes).found]_vars

====
